---- MODULE Spec2Model ----
(***************************************************************************)
(* Verification model of smack-server: the fan-out hub                     *)
(* (handlers/bots.go, websocket part), the streaming AI mediator           *)
(* (handlers/messages.go, commands/interpolator.go), the git receive-pack  *)
(* endpoint (GitHandler) and the reminder sweeper (handlers/reminders.go). *)
(*                                                                         *)
(* Each subsystem has its own variables, initial condition and next-state  *)
(* relation; a specification of one subsystem leaves the variables of the  *)
(* others unchanged.  Store statements whose error the handlers branch on  *)
(* (or ignore) are modelled with both outcomes.                            *)
(***************************************************************************)
EXTENDS Integers, Sequences, FiniteSets, TLC

(***************************************************************************)
(* Bounds of the model.                                                    *)
(***************************************************************************)
\* number of websocket connections ever accepted
NConns == 2
\* number of goroutines that call the direct fan-out operations
NTasks == 1
\* number of events handed to the direct fan-out operations
MaxMsgs == 2
\* capacity of Client.send, make(chan []byte, 256) in the source
SendCap == 2

\* capacity of Hub.register and Hub.unregister
RegCap == 16
\* capacity of Hub.broadcast
BcastCap == 256

Conns == 1..NConns
Tasks == 1..NTasks
Users == {"u1", "u2"}

(***************************************************************************)
(* The hub (handlers/bots.go:113-649).                                     *)
(***************************************************************************)
VARIABLES
    owner,        \* Client.userID
    rp,           \* readPump: "none" (no such connection yet), "run" or "done"
    wp,           \* writePump: "none", "run" or "done"
    send,         \* Client.send: the buffered frames
    closed,       \* Client.send has been closed
    written,      \* frames written to the socket by writePump, in order
    pushed,       \* frames ever enqueued on Client.send, in order
    fullSeen,     \* connections on which some enqueue found the buffer full
    chSub,        \* Client.channels contains the channel
    appSub,       \* Client.apps contains the app
    clients,      \* Hub.clients
    registerQ,    \* Hub.register
    unregisterQ,  \* Hub.unregister
    broadcastQ,   \* Hub.broadcast
    pendingBA,    \* goroutines started by "go h.BroadcastAll(...)", not yet past "h.broadcast <- data"
    baCtr,        \* number of BroadcastAll goroutines started so far
    status,       \* users.status in the store
    hubpc,        \* Hub.Run: "select", "bfan" (fan-out under RLock), "bevict" (stale removal)
    hubMsg,       \* the message taken from Hub.broadcast
    hubTodo,      \* clients the range loop has not visited yet
    hubStale,     \* staleClients of the broadcast case
    tpc,          \* per task: "idle", "fan" (range loop under RLock), "evict" (stale removal pending)
    tkind,        \* "chan", "except", "app" or "user"
    tmsg,         \* the serialized frame (data)
    targ,         \* except client / user id of the call
    ttodo,        \* clients the range loop has not visited yet
    tstale,       \* staleClients
    tsnap,        \* Hub.clients when the range loop began
    tfull,        \* clients whose queue this call found full
    msgCtr,       \* number of events handed to the direct fan-out operations
    crashed       \* the process died of a runtime panic or fatal error

hubVars == <<owner, rp, wp, send, closed, written, pushed, fullSeen, chSub, appSub,
             clients, registerQ, unregisterQ, broadcastQ, pendingBA, baCtr, status,
             hubpc, hubMsg, hubTodo, hubStale,
             tpc, tkind, tmsg, targ, ttodo, tstale, tsnap, tfull, msgCtr, crashed>>

\* the AI mediator
VARIABLES
    aiPc,        \* "idle", "request", "stream", "finalize", "passend", "end", "notify", "done"
    aiMode,      \* "mention", "followup" (sendMentionedBotResponse) or "dm" (sendAIBotResponse)
    aiMsg,       \* msg.ID of the placeholder of the run (0: none yet)
    aiRow,       \* the messages row of the placeholder
    aiFull,      \* fullText of StreamResponseWithContext
    aiFinal,     \* finalContent
    aiErr,       \* StreamResponseWithContext returned an error
    aiLines,     \* lines read from the stream
    aiUp,        \* the deltas the upstream produced, in order
    aiLog,       \* the events handed to the hub for the placeholder, in order
    aiStoreErr,  \* the store statement of the finalization failed
    aiLast       \* lastBotResponse holds an entry for the channel that is less than a minute old

aiVars == <<aiPc, aiMode, aiMsg, aiRow, aiFull, aiFinal, aiErr, aiLines, aiUp, aiLog,
            aiStoreErr, aiLast>>

\* the git endpoint
VARIABLES
    gitObjects,  \* the commits (with their trees and blobs) in the repository's object store
    gitRefs,     \* the references of the repository: a hash each, or Absent
    appCode,     \* the apps row: html_content, css_content, js_content
    gitNew,      \* the new hashes of the commands of the last receive-pack request
    gitNames,    \* the reference names of those commands, in command order
    gitDelta,    \* the pack of the last receive-pack request that was read held a delta object
    gitReply,    \* the reply to the last request
    gitSent,     \* the app_code_updated payload the last request handed to the hub, or NoCode
    gitPushes,   \* number of receive-pack requests so far
    appMembers,  \* the app_members table: the role of each user in the app, NoRole for no row
    gitUser,     \* the user the last git request authenticated as
    gitRead      \* the last read request: its kind and whether it was served

gitVars == <<gitObjects, gitRefs, appCode, gitNew, gitNames, gitDelta, gitReply, gitSent, gitPushes, appMembers,
             gitUser, gitRead>>

\* the reminder scheduler
VARIABLES
    now,         \* the wall clock, in seconds
    nextTick,    \* the time the ticker of StartReminderChecker fires next
    reminders,   \* the reminders table, by id
    created,     \* number of reminders created so far
    due,         \* the reminders GetDueReminders returned that the sweep has yet to handle
    dmExists,    \* the users that have a direct channel with smackbot
    dmMsgs,      \* the messages of each user's direct channel with smackbot
    strayMsgs,   \* the messages of direct channels whose user was never joined
    hubOut,      \* the events the sweeps handed to the hub
    swept        \* how the latest sweep that found the reminder due ended for it

remVars == <<now, nextTick, reminders, created, due, dmExists, dmMsgs, strayMsgs, hubOut, swept>>

\* the open-DM endpoint
VARIABLES
    channels,    \* the direct channels: the members of each channel id, NoMembers for an id not yet used
    nextChan,    \* number of channels rows inserted so far
    opc,         \* per request: "idle", "queried", "created", "done"
    ofrom,       \* per request: the authenticated user
    oto,         \* per request: the user_id of the body
    ofound,      \* per request: the channel id the SELECT returned, or the one created, 0 for none
    oret,        \* per request: the channel id of the reply, 0 for none or an error
    opens        \* number of open-DM requests so far

dmVars == <<channels, nextChan, opc, ofrom, oto, ofound, oret, opens>>

\* the delete-message endpoint
VARIABLES
    foreignKeys, \* the connection enforces foreign keys (off unless DB_PATH asks for it)
    rows,        \* the messages table: the thread_id of each message id (0: top level), Gone for no row
    reacts,      \* the message ids that have a reactions row
    rowCtr,      \* number of messages rows inserted so far
    dpc,         \* the delete in flight: "idle", "replies" (before the first DELETE), "row" (before the second)
    dId,         \* the message id of the delete in flight
    doomedRows,  \* the messages the delete in flight is to remove: the message and its replies
    doomedReacts \* the reactions the delete in flight is to remove: those on the message

delVars == <<foreignKeys, rows, reacts, rowCtr, dpc, dId, doomedRows, doomedReacts>>

\* the dispatch of send-message to the AI runs
VARIABLES
    clock,            \* the time, in seconds
    lastBotResponse,  \* MessageHandler.lastBotResponse: per channel the bot and the timestamp, or NoResponse
    sendReq,          \* the last send-message request: channel, content and what the store did
    sendRuns,         \* the runs the last send-message request started, in order
    pendingRuns,      \* the mention and follow-up runs that have not returned yet
    sends             \* number of send-message requests so far

sendVars == <<clock, lastBotResponse, sendReq, sendRuns, pendingRuns, sends>>

\* the conversation context of an AI run
VARIABLES
    chanLog,     \* the top-level messages rows of the channel, in the order of created_at
    ctxFetched,  \* the messages the last run fetched from the store
    ctxText,     \* the user text the last run was started with
    ctxSent,     \* the context messages the last run handed to the upstream client
    ctxRuns      \* number of runs so far

ctxVars == <<chanLog, ctxFetched, ctxText, ctxSent, ctxRuns>>

\* the members of a kanban board and the remove-member endpoints
VARIABLES
    boardMembers,  \* the kanban_board_members table: the role of each user, NoRole for no row
    memReq,        \* the last remove-member request: table, requester, target, store outcome, status
    removes        \* number of remove-member requests so far

memVars == <<boardMembers, memReq, removes>>

\* the authors of messages: users, webhooks and bots
VARIABLES
    userRows,    \* the users table: rows of id and username (id is the key, username is unique)
    hooks,       \* the webhooks table: the name of each webhook id, NoHook for no row
    botRows,     \* the bots table: the names of the bots
    msgAuthors,  \* the user_id column of the messages table
    hookReply,   \* the status of the last incoming-webhook request
    hookCtr      \* number of webhooks rows inserted so far

hookVars == <<userRows, hooks, botRows, msgAuthors, hookReply, hookCtr>>

\* the channel and the parent of messages
VARIABLES
    threadRows,  \* the messages table: channel_id and thread_id of each id (0: top level), NoMsg for no row
    thrCtr       \* number of messages rows inserted so far

thrVars == <<threadRows, thrCtr>>

\* the limit of a request for a channel's messages
VARIABLES
    pageParam,   \* the "limit" query parameter of the last request, "" when absent
    pageLimit    \* the limit the last request handed to the store

pageVars == <<pageParam, pageLimit>>

\* the creation of an app's repository
VARIABLES
    repoState,     \* the repository on disk: whether it exists, and the commit of refs/heads/main
    storeTriplet,  \* the code of the app in the store
    epc,           \* per refs request: "idle", "init", "sync", "served", "failed"
    efound         \* per refs request: PlainOpen found the repository

seedVars == <<repoState, storeTriplet, epc, efound>>

\* the app-builder chat
VARIABLES
    chatStore,   \* the apps row: the triplet html_content, css_content, js_content
    cpc,         \* the callback of Chat: "idle", "write", "read" or "send"
    cArgs,       \* codeArgs of the update_code call being handled
    cWrote,      \* the UPDATE of that call changed the row
    cRead,       \* the triplet GetApp returned to broadcastCodeUpdate
    chatEvents,  \* the app_code_updated events handed to BroadcastToApp, in order
    chatCalls    \* number of tool calls the stream has delivered

chatVars == <<chatStore, cpc, cArgs, cWrote, cRead, chatEvents, chatCalls>>

\* the store and the repository of one app under concurrent writers
VARIABLES
    syStore,     \* the apps row: the triplet html_content, css_content, js_content
    syHead,      \* the triplet the blobs of the commit at HEAD hold
    sypc,        \* per writer: "idle", "sync" (sync started), "read" (GetApp done), "pushed" (refs updated)
    syRead       \* per writer: the triplet GetApp returned to syncDatabaseToGit

syVars == <<syStore, syHead, sypc, syRead>>

\* the per-app stores of the apps handler
VARIABLES
    appDBs,      \* AppsHandler.appDBs: the cached handle of each app, NoHandle for no entry
    dbCalls,     \* per caller of getAppDB: its position, its app, what it returned and how
    dbOpened,    \* every handle sql.Open has returned: its app and the closes of the app's entry before it
    dbCloses     \* per app, the number of times closeAppDB has deleted its entry

dbVars == <<appDBs, dbCalls, dbOpened, dbCloses>>

\* the pack of an upload-pack request
VARIABLES
    packWants,   \* req.Wants: the hashes the client asked for
    packOut      \* what generatePackfile returned: NoPack before the call

packVars == <<packWants, packOut>>

\* the body of a receive-pack request
VARIABLES
    parseBody,   \* the packets the request body is made of, in order
    parseOut     \* what parseReceivePackCommands returned, or that it panicked: NoParse before the call

parseVars == <<parseBody, parseOut>>

\* the variables the steps of one subsystem leave alone
otherThanHub == <<aiVars, gitVars, remVars, dmVars, delVars, sendVars, ctxVars, memVars, hookVars, thrVars, pageVars, seedVars, chatVars, syVars, dbVars, packVars, parseVars>>
otherThanAI == <<hubVars, gitVars, remVars, dmVars, delVars, sendVars, ctxVars, memVars, hookVars, thrVars, pageVars, seedVars, chatVars, syVars, dbVars, packVars, parseVars>>
otherThanGit == <<hubVars, aiVars, remVars, dmVars, delVars, sendVars, ctxVars, memVars, hookVars, thrVars, pageVars, seedVars, chatVars, syVars, dbVars, packVars, parseVars>>
otherThanRem == <<hubVars, aiVars, gitVars, dmVars, delVars, sendVars, ctxVars, memVars, hookVars, thrVars, pageVars, seedVars, chatVars, syVars, dbVars, packVars, parseVars>>
otherThanDM == <<hubVars, aiVars, gitVars, remVars, delVars, sendVars, ctxVars, memVars, hookVars, thrVars, pageVars, seedVars, chatVars, syVars, dbVars, packVars, parseVars>>
otherThanDel == <<hubVars, aiVars, gitVars, remVars, dmVars, sendVars, ctxVars, memVars, hookVars, thrVars, pageVars, seedVars, chatVars, syVars, dbVars, packVars, parseVars>>
otherThanSend == <<hubVars, aiVars, gitVars, remVars, dmVars, delVars, ctxVars, memVars, hookVars, thrVars, pageVars, seedVars, chatVars, syVars, dbVars, packVars, parseVars>>
otherThanCtx == <<hubVars, aiVars, gitVars, remVars, dmVars, delVars, sendVars, memVars, hookVars, thrVars, pageVars, seedVars, chatVars, syVars, dbVars, packVars, parseVars>>
otherThanMem == <<hubVars, aiVars, gitVars, remVars, dmVars, delVars, sendVars, ctxVars, hookVars, thrVars, pageVars, seedVars, chatVars, syVars, dbVars, packVars, parseVars>>
otherThanGitMem == <<hubVars, aiVars, remVars, dmVars, delVars, sendVars, ctxVars, hookVars, thrVars, pageVars, seedVars, chatVars, syVars, dbVars, packVars, parseVars>>
otherThanHook == <<hubVars, aiVars, gitVars, remVars, dmVars, delVars, sendVars, ctxVars, memVars, thrVars, pageVars, seedVars, chatVars, syVars, dbVars, packVars, parseVars>>
otherThanThr == <<hubVars, aiVars, gitVars, remVars, dmVars, delVars, sendVars, ctxVars, memVars, hookVars, pageVars, seedVars, chatVars, syVars, dbVars, packVars, parseVars>>
otherThanPage == <<hubVars, aiVars, gitVars, remVars, dmVars, delVars, sendVars, ctxVars, memVars, hookVars, thrVars, seedVars, chatVars, syVars, dbVars, packVars, parseVars>>
otherThanSeed == <<hubVars, aiVars, gitVars, remVars, dmVars, delVars, sendVars, ctxVars, memVars, hookVars, thrVars, pageVars, chatVars, syVars, dbVars, packVars, parseVars>>
otherThanChat == <<hubVars, aiVars, gitVars, remVars, dmVars, delVars, sendVars, ctxVars, memVars, hookVars, thrVars, pageVars, seedVars, syVars, dbVars, packVars, parseVars>>
otherThanSy == <<hubVars, aiVars, gitVars, remVars, dmVars, delVars, sendVars, ctxVars, memVars, hookVars, thrVars, pageVars, seedVars, chatVars, dbVars, packVars, parseVars>>
otherThanDB == <<hubVars, aiVars, gitVars, remVars, dmVars, delVars, sendVars, ctxVars, memVars, hookVars, thrVars, pageVars, seedVars, chatVars, syVars, packVars, parseVars>>
otherThanPack == <<hubVars, aiVars, gitVars, remVars, dmVars, delVars, sendVars, ctxVars, memVars, hookVars, thrVars, pageVars, seedVars, chatVars, syVars, dbVars, parseVars>>
otherThanParse == <<hubVars, aiVars, gitVars, remVars, dmVars, delVars, sendVars, ctxVars, memVars, hookVars, thrVars, pageVars, seedVars, chatVars, syVars, dbVars, packVars>>

NoPayload == [id |-> 0, by |-> 0, user_id |-> ""]

\* models.WSMessage{Type, Payload}
WSMessage(type, payload) == [Type |-> type, Payload |-> payload]

\* a serialization that loses the event type
MarshalUntyped(msg) == [type |-> "", payload |-> msg.Payload]

\* json.Marshal(msg): the frame {"type": ..., "payload": ...}
Marshal(msg) == [type |-> msg.Type, payload |-> msg.Payload]

NoFrame == Marshal(WSMessage("", NoPayload))

\* the arguments a fan-out call does not use
NoArg == [type |-> "", except |-> 0, user |-> ""]

PresenceMsg(type, u) == WSMessage(type, [NoPayload EXCEPT !.user_id = u])

\* the event types the direct fan-out operations are called with
ChanTypes == {"new_message", "message_deleted"}

\* number of registered connections of user u
ConnCount(cl, u) == Cardinality({c \in cl : owner[c] = u})

\* some goroutine holds Hub.mu for reading
Readers == {t \in Tasks : tpc[t] = "fan"}
HubReads == hubpc = "bfan"
NoReaders == Readers = {} /\ ~HubReads

HubInit ==
    /\ owner = [c \in Conns |-> "u1"]
    /\ rp = [c \in Conns |-> "none"]
    /\ wp = [c \in Conns |-> "none"]
    /\ send = [c \in Conns |-> <<>>]
    /\ closed = [c \in Conns |-> FALSE]
    /\ written = [c \in Conns |-> <<>>]
    /\ pushed = [c \in Conns |-> <<>>]
    /\ fullSeen = {}
    /\ chSub = [c \in Conns |-> FALSE]
    /\ appSub = [c \in Conns |-> FALSE]
    /\ clients = {}
    /\ registerQ = <<>>
    /\ unregisterQ = <<>>
    /\ broadcastQ = <<>>
    /\ pendingBA = {}
    /\ baCtr = 0
    /\ status = [u \in Users |-> "offline"]
    /\ hubpc = "select"
    /\ hubMsg = NoFrame
    /\ hubTodo = {}
    /\ hubStale = {}
    /\ tpc = [t \in Tasks |-> "idle"]
    /\ tkind = [t \in Tasks |-> "chan"]
    /\ tmsg = [t \in Tasks |-> NoFrame]
    /\ targ = [t \in Tasks |-> NoArg]
    /\ ttodo = [t \in Tasks |-> {}]
    /\ tstale = [t \in Tasks |-> {}]
    /\ tsnap = [t \in Tasks |-> {}]
    /\ tfull = [t \in Tasks |-> {}]
    /\ msgCtr = 0
    /\ crashed = FALSE


connVars == <<owner, rp, wp, chSub, appSub>>

\* the websocket has been closed: both pumps end with c.conn.Close()
ConnClosed(c) == rp[c] = "done" \/ wp[c] = "done"
queueVars == <<send, closed, pushed, fullSeen>>
coordVars == <<registerQ, unregisterQ, broadcastQ, pendingBA, baCtr, status>>
loopVars == <<hubpc, hubMsg, hubTodo, hubStale>>
taskVars == <<tpc, tkind, tmsg, targ, ttodo, tstale, tsnap, tfull, msgCtr>>

\* "case client.send <- data:" is taken when the buffer has room
CanSend(q) == Len(q) < SendCap

\* the buffer after "client.send <- data"
Enqueued(q, data) == Append(q, data)

\* a receive that hands out the newest frame instead of the oldest
ReceivedNewest(q) == q[Len(q)]

\* the frame "<-c.send" hands to writePump
Received(q) == Head(q)

\* a removal that leaves the registry as it is
RemoveNone(cl, stale) == cl

\* staleClients removed from Hub.clients: "if _, ok := h.clients[client]; ok { close; delete }"
RemoveStale(cl, stale) == cl \ stale

\* isFirstConnection of the register case
IsFirstConnection(cl, c) == \A k \in cl : owner[k] # owner[c]

\* hasOtherConnections of the unregister case (after the delete)
HasOtherConnections(cl, c) == \E k \in cl : owner[k] = owner[c]

\* ---- connections ------------------------------------------------------

\* HandleWebSocket for a valid token of user u: the client is built with the
\* user's channels (sub: the store lists the channel), both pumps are started
\* and the client is handed to Hub.register
HandleWebSocket(c, u, sub) ==
    /\ ~crashed
    /\ rp[c] = "none"
    /\ Len(registerQ) < RegCap
    /\ owner' = [owner EXCEPT ![c] = u]
    /\ chSub' = [chSub EXCEPT ![c] = sub]
    /\ rp' = [rp EXCEPT ![c] = "run"]
    /\ wp' = [wp EXCEPT ![c] = "run"]
    /\ registerQ' = Append(registerQ, c)
    /\ UNCHANGED <<appSub, written, clients, crashed>>
    /\ UNCHANGED <<unregisterQ, broadcastQ, pendingBA, baCtr, status>>
    /\ UNCHANGED <<queueVars, loopVars, taskVars>>
    /\ UNCHANGED otherThanHub

\* readPump: a "subscribe" frame
Subscribe(c) ==
    /\ ~crashed
    /\ rp[c] = "run"
    /\ ~chSub[c]
    /\ chSub' = [chSub EXCEPT ![c] = TRUE]
    /\ UNCHANGED <<owner, rp, wp, appSub, written, clients, crashed>>
    /\ UNCHANGED <<queueVars, coordVars, loopVars, taskVars>>
    /\ UNCHANGED otherThanHub

\* readPump: a "subscribe_app" (on) or "unsubscribe_app" frame
SubscribeApp(c, on) ==
    /\ ~crashed
    /\ rp[c] = "run"
    /\ appSub[c] # on
    /\ appSub' = [appSub EXCEPT ![c] = on]
    /\ UNCHANGED <<owner, rp, wp, chSub, written, clients, crashed>>
    /\ UNCHANGED <<queueVars, coordVars, loopVars, taskVars>>
    /\ UNCHANGED otherThanHub

\* readPump: ReadMessage fails; the deferred "c.hub.unregister <- c; c.conn.Close()"
ReadPumpExit(c) ==
    /\ ~crashed
    /\ rp[c] = "run"
    /\ Len(unregisterQ) < RegCap
    /\ rp' = [rp EXCEPT ![c] = "done"]
    /\ unregisterQ' = Append(unregisterQ, c)
    /\ UNCHANGED <<owner, wp, chSub, appSub, written, clients, crashed>>
    /\ UNCHANGED <<registerQ, broadcastQ, pendingBA, baCtr, status>>
    /\ UNCHANGED <<queueVars, loopVars, taskVars>>
    /\ UNCHANGED otherThanHub

\* writePump: "case message, ok := <-c.send" with a message, then WriteMessage;
\* wrote = FALSE: the write fails and the pump returns, closing the socket
WritePumpWrite(c, wrote) ==
    /\ ~crashed
    /\ wp[c] = "run"
    /\ send[c] # <<>>
    /\ ConnClosed(c) => ~wrote
    /\ send' = [send EXCEPT ![c] = Tail(@)]
    /\ IF wrote
         THEN /\ written' = [written EXCEPT ![c] = Append(@, Received(send[c]))]
              /\ UNCHANGED wp
         ELSE /\ wp' = [wp EXCEPT ![c] = "done"]
              /\ UNCHANGED written
    /\ UNCHANGED <<owner, rp, chSub, appSub, closed, pushed, fullSeen, clients, crashed>>
    /\ UNCHANGED <<coordVars, loopVars, taskVars>>
    /\ UNCHANGED otherThanHub

\* writePump: the channel is closed and drained (!ok): close message, return
WritePumpClosed(c) ==
    /\ ~crashed
    /\ wp[c] = "run"
    /\ send[c] = <<>>
    /\ closed[c]
    /\ wp' = [wp EXCEPT ![c] = "done"]
    /\ UNCHANGED <<owner, rp, chSub, appSub, written, clients, crashed>>
    /\ UNCHANGED <<queueVars, coordVars, loopVars, taskVars>>
    /\ UNCHANGED otherThanHub

\* writePump: "case <-ticker.C" on a socket that is already closed: the ping fails
WritePumpPing(c) ==
    /\ ~crashed
    /\ wp[c] = "run"
    /\ ConnClosed(c)
    /\ wp' = [wp EXCEPT ![c] = "done"]
    /\ UNCHANGED <<owner, rp, chSub, appSub, written, clients, crashed>>
    /\ UNCHANGED <<queueVars, coordVars, loopVars, taskVars>>
    /\ UNCHANGED otherThanHub

\* ---- Hub.Run ----------------------------------------------------------

\* "case client := <-h.register"
HubRegister ==
    /\ ~crashed
    /\ hubpc = "select"
    /\ registerQ # <<>>
    /\ NoReaders
    /\ LET c == Head(registerQ)
           first == IsFirstConnection(clients, c)
       IN /\ registerQ' = Tail(registerQ)
          /\ clients' = clients \cup {c}
          /\ status' = [status EXCEPT ![owner[c]] = "online"]
          /\ IF first
               THEN /\ pendingBA' = pendingBA \cup
                          {[n |-> baCtr + 1, frame |-> Marshal(PresenceMsg("user_online", owner[c]))]}
                    /\ baCtr' = baCtr + 1
               ELSE UNCHANGED <<pendingBA, baCtr>>
    /\ UNCHANGED <<unregisterQ, broadcastQ, written, crashed>>
    /\ UNCHANGED <<connVars, queueVars, loopVars, taskVars>>
    /\ UNCHANGED otherThanHub

\* "case client := <-h.unregister"
HubUnregister ==
    /\ ~crashed
    /\ hubpc = "select"
    /\ unregisterQ # <<>>
    /\ NoReaders
    /\ LET c == Head(unregisterQ)
           wasPresent == c \in clients
           rest == clients \ {c}
       IN /\ unregisterQ' = Tail(unregisterQ)
          /\ clients' = rest
          /\ closed' = [closed EXCEPT ![c] = @ \/ wasPresent]
          /\ IF wasPresent /\ ~HasOtherConnections(rest, c)
               THEN /\ status' = [status EXCEPT ![owner[c]] = "offline"]
                    /\ pendingBA' = pendingBA \cup
                          {[n |-> baCtr + 1, frame |-> Marshal(PresenceMsg("user_offline", owner[c]))]}
                    /\ baCtr' = baCtr + 1
               ELSE UNCHANGED <<status, pendingBA, baCtr>>
    /\ UNCHANGED <<registerQ, broadcastQ, send, pushed, fullSeen, written, crashed>>
    /\ UNCHANGED <<connVars, loopVars, taskVars>>
    /\ UNCHANGED otherThanHub

\* BroadcastAll: "h.broadcast <- data" (blocks while the queue is full)
BroadcastAll(p) ==
    /\ ~crashed
    /\ p \in pendingBA
    /\ Len(broadcastQ) < BcastCap
    /\ pendingBA' = pendingBA \ {p}
    /\ broadcastQ' = Append(broadcastQ, p.frame)
    /\ UNCHANGED <<registerQ, unregisterQ, baCtr, status, written, clients, crashed>>
    /\ UNCHANGED <<connVars, queueVars, loopVars, taskVars>>
    /\ UNCHANGED otherThanHub

\* "case message := <-h.broadcast": RLock, start of the range loop
HubBroadcastBegin ==
    /\ ~crashed
    /\ hubpc = "select"
    /\ broadcastQ # <<>>
    /\ hubpc' = "bfan"
    /\ hubMsg' = Head(broadcastQ)
    /\ broadcastQ' = Tail(broadcastQ)
    /\ hubTodo' = clients
    /\ hubStale' = {}
    /\ UNCHANGED <<registerQ, unregisterQ, pendingBA, baCtr, status, written, clients, crashed>>
    /\ UNCHANGED <<connVars, queueVars, taskVars>>
    /\ UNCHANGED otherThanHub

\* one iteration of the range loop of the broadcast case.  A client that a
\* concurrent SendToUser deleted (and closed) is either no longer produced by
\* the iteration, or produced: the send on its closed channel panics.
HubBroadcastStep(c, produced) ==
    /\ ~crashed
    /\ hubpc = "bfan"
    /\ c \in hubTodo
    /\ c \in clients => produced
    /\ hubTodo' = hubTodo \ {c}
    /\ IF ~produced
         THEN UNCHANGED <<send, pushed, fullSeen, hubStale, crashed>>
         ELSE IF closed[c]
         THEN /\ crashed' = TRUE
              /\ UNCHANGED <<send, pushed, fullSeen, hubStale>>
         ELSE IF CanSend(send[c])
         THEN /\ send' = [send EXCEPT ![c] = Enqueued(@, hubMsg)]
              /\ pushed' = [pushed EXCEPT ![c] = Append(@, hubMsg)]
              /\ UNCHANGED <<fullSeen, hubStale, crashed>>
         ELSE /\ hubStale' = hubStale \cup {c}
              /\ fullSeen' = fullSeen \cup {c}
              /\ UNCHANGED <<send, pushed, crashed>>
    /\ UNCHANGED <<hubpc, hubMsg, closed, written, clients>>
    /\ UNCHANGED <<connVars, coordVars, taskVars>>
    /\ UNCHANGED otherThanHub

\* end of the range loop: RUnlock
HubBroadcastUnlock ==
    /\ ~crashed
    /\ hubpc = "bfan"
    /\ hubTodo = {}
    /\ hubpc' = IF hubStale = {} THEN "select" ELSE "bevict"
    /\ hubMsg' = NoFrame
    /\ UNCHANGED <<hubTodo, hubStale, written, clients, crashed>>
    /\ UNCHANGED <<connVars, queueVars, coordVars, taskVars>>
    /\ UNCHANGED otherThanHub

\* "if len(staleClients) > 0 { h.mu.Lock() ... }"
HubBroadcastEvict ==
    /\ ~crashed
    /\ hubpc = "bevict"
    /\ NoReaders
    /\ hubpc' = "select"
    /\ hubStale' = {}
    /\ clients' = RemoveStale(clients, hubStale)
    /\ closed' = [c \in Conns |-> closed[c] \/ c \in (hubStale \cap clients)]
    /\ UNCHANGED <<hubMsg, hubTodo, send, pushed, fullSeen, written, crashed>>
    /\ UNCHANGED <<connVars, coordVars, taskVars>>
    /\ UNCHANGED otherThanHub


\* ---- the direct fan-out operations -------------------------------------

\* json.Marshal, RLock and the start of the range loop of a fan-out operation
FanBegin(t, kind, msg, arg) ==
    /\ ~crashed
    /\ tpc[t] = "idle"
    /\ msgCtr < MaxMsgs
    /\ msgCtr' = msgCtr + 1
    /\ tpc' = [tpc EXCEPT ![t] = "fan"]
    /\ tkind' = [tkind EXCEPT ![t] = kind]
    /\ tmsg' = [tmsg EXCEPT ![t] = Marshal(msg)]
    /\ targ' = [targ EXCEPT ![t] = [arg EXCEPT !.type = msg.Type]]
    /\ ttodo' = [ttodo EXCEPT ![t] = clients]
    /\ tsnap' = [tsnap EXCEPT ![t] = clients]
    /\ tstale' = [tstale EXCEPT ![t] = {}]
    /\ tfull' = [tfull EXCEPT ![t] = {}]
    /\ UNCHANGED <<written, clients, crashed>>
    /\ UNCHANGED <<connVars, queueVars, coordVars, loopVars>>
    /\ UNCHANGED otherThanHub

\* Hub.BroadcastToChannel(channelID, msg)
BroadcastToChannel(t, type) ==
    FanBegin(t, "chan", WSMessage(type, [NoPayload EXCEPT !.id = msgCtr + 1, !.by = t]), NoArg)

\* Hub.BroadcastToChannelExcept(channelID, except, msg), called by readPump for a typing frame
BroadcastToChannelExcept(t, c) ==
    /\ rp[c] = "run"
    /\ FanBegin(t, "except", WSMessage("typing", [id |-> msgCtr + 1, by |-> t, user_id |-> owner[c]]),
                [NoArg EXCEPT !.except = c])

\* Hub.BroadcastToApp(appID, msg)
BroadcastToApp(t) ==
    FanBegin(t, "app", WSMessage("app_code_updated", [NoPayload EXCEPT !.id = msgCtr + 1, !.by = t]), NoArg)

\* Hub.SendToUser(userID, msg)
SendToUser(t, u) ==
    FanBegin(t, "user", WSMessage("reminder", [NoPayload EXCEPT !.id = msgCtr + 1, !.by = t]),
             [NoArg EXCEPT !.user = u])

\* a fan-out operation that sends to every client
SelectedAny(t, c) == TRUE

\* the "if" around the send of each fan-out operation
Selected(t, c) ==
    CASE tkind[t] = "chan" -> TRUE
      [] tkind[t] = "except" -> c # targ[t].except
      [] tkind[t] = "app" -> appSub[c]
      [] tkind[t] = "user" -> owner[c] = targ[t].user

\* what the "default:" branch of the non-blocking send does with a full client
EvictsInLoop(kind) == kind = "user"
MarksStale(kind) == kind \in {"chan", "app"}

\* one iteration of the range loop of a fan-out operation.  SendToUser closes
\* and deletes a full client while holding only the read lock: with another
\* reader in its loop this is a data race on the map, which the runtime may
\* detect (race: fatal error) or not.
FanStep(t, c, produced, race) ==
    /\ ~crashed
    /\ tpc[t] = "fan"
    /\ c \in ttodo[t]
    /\ c \in clients => produced
    /\ LET full == produced /\ Selected(t, c) /\ ~closed[c] /\ ~CanSend(send[c])
           others == (Readers \ {t}) # {} \/ HubReads
       IN /\ race => (full /\ EvictsInLoop(tkind[t]) /\ others)
          /\ ttodo' = [ttodo EXCEPT ![t] = @ \ {c}]
          /\ IF ~produced \/ ~Selected(t, c)
               THEN UNCHANGED <<send, pushed, fullSeen, closed, clients, tstale, tfull, crashed>>
               ELSE IF closed[c]
               THEN /\ crashed' = TRUE
                    /\ UNCHANGED <<send, pushed, fullSeen, closed, clients, tstale, tfull>>
               ELSE IF CanSend(send[c])
               THEN /\ send' = [send EXCEPT ![c] = Enqueued(@, tmsg[t])]
                    /\ pushed' = [pushed EXCEPT ![c] = Append(@, tmsg[t])]
                    /\ UNCHANGED <<fullSeen, closed, clients, tstale, tfull, crashed>>
               ELSE /\ tfull' = [tfull EXCEPT ![t] = @ \cup {c}]
                    /\ fullSeen' = fullSeen \cup {c}
                    /\ tstale' = [tstale EXCEPT ![t] = IF MarksStale(tkind[t]) THEN @ \cup {c} ELSE @]
                    /\ IF EvictsInLoop(tkind[t])
                         THEN /\ closed' = [closed EXCEPT ![c] = TRUE]
                              /\ clients' = clients \ {c}
                              /\ crashed' = race
                         ELSE UNCHANGED <<closed, clients, crashed>>
                    /\ UNCHANGED <<send, pushed>>
    /\ UNCHANGED <<tpc, tkind, tmsg, targ, tsnap, msgCtr, written>>
    /\ UNCHANGED <<connVars, coordVars, loopVars>>
    /\ UNCHANGED otherThanHub

\* the fan-out operation returns: its locals are gone
Return(t) ==
    /\ tpc' = [tpc EXCEPT ![t] = "idle"]
    /\ tkind' = [tkind EXCEPT ![t] = "chan"]
    /\ tmsg' = [tmsg EXCEPT ![t] = NoFrame]
    /\ targ' = [targ EXCEPT ![t] = NoArg]
    /\ ttodo' = [ttodo EXCEPT ![t] = {}]
    /\ tstale' = [tstale EXCEPT ![t] = {}]
    /\ tsnap' = [tsnap EXCEPT ![t] = {}]
    /\ tfull' = [tfull EXCEPT ![t] = {}]

\* end of the range loop: RUnlock; the operation returns unless it has stale clients to remove
FanUnlock(t) ==
    /\ ~crashed
    /\ tpc[t] = "fan"
    /\ ttodo[t] = {}
    /\ IF tstale[t] = {}
         THEN Return(t)
         ELSE /\ tpc' = [tpc EXCEPT ![t] = "evict"]
              /\ UNCHANGED <<tkind, tmsg, targ, ttodo, tstale, tsnap, tfull>>
    /\ UNCHANGED <<msgCtr, written, clients, crashed>>
    /\ UNCHANGED <<connVars, queueVars, coordVars, loopVars>>
    /\ UNCHANGED otherThanHub

\* "if len(staleClients) > 0 { h.mu.Lock() ... h.mu.Unlock() }", then the operation returns
FanEvict(t) ==
    /\ ~crashed
    /\ tpc[t] = "evict"
    /\ NoReaders
    /\ Return(t)
    /\ clients' = RemoveStale(clients, tstale[t])
    /\ closed' = [c \in Conns |-> closed[c] \/ c \in (tstale[t] \cap clients)]
    /\ UNCHANGED <<msgCtr, send, pushed, fullSeen, written, crashed>>
    /\ UNCHANGED <<connVars, coordVars, loopVars>>
    /\ UNCHANGED otherThanHub

\* ---- the hub from construction: handshakes, presence, the coordinator ----

WritePumpNext ==
    \/ \E c \in Conns, wrote \in BOOLEAN : WritePumpWrite(c, wrote)
    \/ \E c \in Conns : WritePumpClosed(c)
    \/ \E c \in Conns : WritePumpPing(c)

BroadcastNext ==
    \/ \E p \in pendingBA : BroadcastAll(p)
    \/ HubBroadcastBegin
    \/ \E c \in Conns, produced \in BOOLEAN : HubBroadcastStep(c, produced)
    \/ HubBroadcastUnlock
    \/ HubBroadcastEvict

HubNext ==
    \/ \E c \in Conns, u \in Users, sub \in BOOLEAN : HandleWebSocket(c, u, sub)
    \/ \E c \in Conns : Subscribe(c)
    \/ \E c \in Conns : ReadPumpExit(c)
    \/ HubRegister
    \/ HubUnregister
    \/ WritePumpNext
    \/ BroadcastNext

\* ---- the direct fan-out operations against registered connections -------

\* connection j is the first of its user among 1..j under the assignment o
FirstOfUser(o, j) == \A k \in 1..(j - 1) : o[k] # o[j]

\* the user_online frames on the queue of connection c when connections 1..NConns
\* of the users o have registered one after the other: those of j >= c
RECURSIVE OnlineFrames(_, _, _)
OnlineFrames(o, c, j) ==
    IF j < c THEN <<>>
    ELSE LET before == OnlineFrames(o, c, j - 1)
         IN IF FirstOfUser(o, j)
              THEN Append(before, Marshal(PresenceMsg("user_online", o[j])))
              ELSE before

\* the hub right after the register case has added the last of the
\* connections 1..NConns: the earlier presence frames are on the outbound
\* queues, nothing has been written yet, and the goroutine broadcasting the
\* last user_online event (if the last connection is the first of its user)
\* has not run yet
FanInit ==
    /\ owner \in [Conns -> Users]
    /\ owner[1] = "u1"
    /\ rp = [c \in Conns |-> "run"]
    /\ wp = [c \in Conns |-> "run"]
    /\ send = [c \in Conns |-> OnlineFrames(owner, c, NConns - 1)]
    /\ closed = [c \in Conns |-> FALSE]
    /\ written = [c \in Conns |-> <<>>]
    /\ pushed = [c \in Conns |-> OnlineFrames(owner, c, NConns - 1)]
    /\ fullSeen = {}
    /\ chSub = [c \in Conns |-> c = 1]
    /\ appSub = [c \in Conns |-> FALSE]
    /\ clients = Conns
    /\ registerQ = <<>>
    /\ unregisterQ = <<>>
    /\ broadcastQ = <<>>
    /\ baCtr = Cardinality({j \in Conns : FirstOfUser(owner, j)})
    /\ pendingBA = IF FirstOfUser(owner, NConns)
                     THEN {[n |-> baCtr, frame |-> Marshal(PresenceMsg("user_online", owner[NConns]))]}
                     ELSE {}
    /\ status = [u \in Users |-> IF \E c \in Conns : owner[c] = u THEN "online" ELSE "offline"]
    /\ hubpc = "select"
    /\ hubMsg = NoFrame
    /\ hubTodo = {}
    /\ hubStale = {}
    /\ tpc = [t \in Tasks |-> "idle"]
    /\ tkind = [t \in Tasks |-> "chan"]
    /\ tmsg = [t \in Tasks |-> NoFrame]
    /\ targ = [t \in Tasks |-> NoArg]
    /\ ttodo = [t \in Tasks |-> {}]
    /\ tstale = [t \in Tasks |-> {}]
    /\ tsnap = [t \in Tasks |-> {}]
    /\ tfull = [t \in Tasks |-> {}]
    /\ msgCtr = 0
    /\ crashed = FALSE

FanNext ==
    \/ \E c \in Conns, on \in BOOLEAN : SubscribeApp(c, on)
    \/ \E c \in Conns, wrote \in BOOLEAN : WritePumpWrite(c, wrote)
    \/ \E c \in Conns : WritePumpClosed(c)
    \/ BroadcastNext
    \/ \E t \in Tasks, type \in ChanTypes : BroadcastToChannel(t, type)
    \/ \E t \in Tasks, c \in Conns : BroadcastToChannelExcept(t, c)
    \/ \E t \in Tasks : BroadcastToApp(t)
    \/ \E t \in Tasks, u \in Users : SendToUser(t, u)
    \/ \E t \in Tasks, c \in Conns, produced, race \in BOOLEAN : FanStep(t, c, produced, race)
    \/ \E t \in Tasks : FanUnlock(t)
    \/ \E t \in Tasks : FanEvict(t)

\* ---- the hub with its producers, scheduled fairly ------------------------

\* a step of the goroutine running Hub.Run
Coordinator ==
    \/ HubRegister
    \/ HubUnregister
    \/ HubBroadcastBegin
    \/ \E c \in Conns, produced \in BOOLEAN : HubBroadcastStep(c, produced)
    \/ HubBroadcastUnlock
    \/ HubBroadcastEvict

\* a step of a goroutine inside a direct fan-out operation
TaskStep(t) ==
    \/ \E c \in Conns, produced, race \in BOOLEAN : FanStep(t, c, produced, race)
    \/ FanUnlock(t)

\* the hub right after the register case has added the first connection, of
\* user u1: the goroutine broadcasting its user_online event has not run yet,
\* and the other connections have not been accepted yet
LiveInit ==
    /\ owner = [c \in Conns |-> "u1"]
    /\ rp = [c \in Conns |-> IF c = 1 THEN "run" ELSE "none"]
    /\ wp = [c \in Conns |-> IF c = 1 THEN "run" ELSE "none"]
    /\ send = [c \in Conns |-> <<>>]
    /\ closed = [c \in Conns |-> FALSE]
    /\ written = [c \in Conns |-> <<>>]
    /\ pushed = [c \in Conns |-> <<>>]
    /\ fullSeen = {}
    /\ chSub = [c \in Conns |-> FALSE]
    /\ appSub = [c \in Conns |-> FALSE]
    /\ clients = {1}
    /\ registerQ = <<>>
    /\ unregisterQ = <<>>
    /\ broadcastQ = <<>>
    /\ pendingBA = {[n |-> 1, frame |-> Marshal(PresenceMsg("user_online", "u1"))]}
    /\ baCtr = 1
    /\ status = [u \in Users |-> IF u = "u1" THEN "online" ELSE "offline"]
    /\ hubpc = "select"
    /\ hubMsg = NoFrame
    /\ hubTodo = {}
    /\ hubStale = {}
    /\ tpc = [t \in Tasks |-> "idle"]
    /\ tkind = [t \in Tasks |-> "chan"]
    /\ tmsg = [t \in Tasks |-> NoFrame]
    /\ targ = [t \in Tasks |-> NoArg]
    /\ ttodo = [t \in Tasks |-> {}]
    /\ tstale = [t \in Tasks |-> {}]
    /\ tsnap = [t \in Tasks |-> {}]
    /\ tfull = [t \in Tasks |-> {}]
    /\ msgCtr = 0
    /\ crashed = FALSE

\* the hub with its producers while the peers of the connections do not read:
\* every writePump is inside WriteMessage and takes no step
LiveNext ==
    \/ \E c \in Conns, u \in Users : HandleWebSocket(c, u, FALSE)
    \/ \E c \in Conns : ReadPumpExit(c)
    \/ \E p \in pendingBA : BroadcastAll(p)
    \/ Coordinator
    \/ \E t \in Tasks, u \in Users : SendToUser(t, u)
    \/ \E t \in Tasks : TaskStep(t)

(***************************************************************************)
(* The streaming AI mediator (handlers/messages.go:291-556,                *)
(* commands/interpolator.go:321-438).  One run at a time is followed: the  *)
(* placeholder row of the run, the events the run hands to the hub for it, *)
(* and what the upstream stream produced.  Texts are sequences of          *)
(* characters.                                                             *)
(***************************************************************************)
\* number of lines of the upstream event stream a run reads
MaxLines == 3
\* number of runs that create a placeholder
MaxRuns == 2

\* the fixed text "Sorry, I'm having trouble connecting right now. Please try again later."
Apology == <<"S", "o", "r", "r", "y">>

\* the texts of the delta events and of the done events the upstream sends
Deltas == {<<"P", "a">>, <<"s", "s">>, <<" ">>, <<"h", "i">>}
DoneTexts == {<<"p", "a", "s", "s">>, <<"h", "i">>, <<>>}

\* a lower-casing that leaves every character as it is
ToLowerNone(text) == text

\* strings.ToLower
ToLower(text) ==
    [i \in 1..Len(text) |->
        CASE text[i] = "P" -> "p"
          [] text[i] = "A" -> "a"
          [] text[i] = "S" -> "s"
          [] text[i] = "B" -> "b"
          [] text[i] = "O" -> "o"
          [] text[i] = "T" -> "t"
          [] text[i] = "L" -> "l"
          [] OTHER -> text[i]]

IsSpace(ch) == ch \in {" ", "\n", "\t"}

RECURSIVE TrimLeft(_)
TrimLeft(text) == IF text # <<>> /\ IsSpace(Head(text)) THEN TrimLeft(Tail(text)) ELSE text

RECURSIVE TrimRight(_)
TrimRight(text) ==
    IF text # <<>> /\ IsSpace(text[Len(text)])
      THEN TrimRight(SubSeq(text, 1, Len(text) - 1))
      ELSE text

\* strings.TrimSpace
TrimSpace(text) == TrimRight(TrimLeft(text))

\* "isFollowUp && strings.TrimSpace(strings.ToLower(finalContent)) == "pass""
IsPassRun(mode, final) ==
    mode = "followup" /\ TrimSpace(ToLower(final)) = <<"p", "a", "s", "s">>

NoRow == [present |-> FALSE, content |-> <<>>]

\* Store.CreateMessage(channelID, bot.ID, "", threadID)
CreateMessage(content) == [present |-> TRUE, content |-> content]

\* an update that changes nothing
UpdateNothing(row, content) == row

\* Store.UpdateMessageContent: UPDATE messages SET content = ? WHERE id = ?
UpdateMessageContent(row, content) ==
    IF row.present THEN [row EXCEPT !.content = content] ELSE row

\* Store.DeleteMessage: DELETE FROM messages WHERE id = ?
DeleteMessage(row) == NoRow

\* the payloads of the stream events and of new_message
StreamStart(id) == [type |-> "message_stream_start", message_id |-> id, text |-> <<>>, full |-> <<>>]
StreamDelta(id, delta, full) == [type |-> "message_stream_delta", message_id |-> id, text |-> delta, full |-> full]
StreamEnd(id, content) == [type |-> "message_stream_end", message_id |-> id, text |-> content, full |-> <<>>]
NewMessage(id, content) == [type |-> "new_message", message_id |-> id, text |-> content, full |-> <<>>]

\* a hand-over that puts the event in front of the earlier ones
BroadcastFirst(log, event) == <<event>> \o log

\* h.hub.BroadcastToChannel(channelID, event): the next event handed to the hub
Broadcast(log, event) == Append(log, event)

AIInit ==
    /\ aiPc = "idle"
    /\ aiMode = "mention"
    /\ aiMsg = 0
    /\ aiRow = NoRow
    /\ aiFull = <<>>
    /\ aiFinal = <<>>
    /\ aiErr = FALSE
    /\ aiLines = 0
    /\ aiUp = <<>>
    /\ aiLog = <<>>
    /\ aiStoreErr = FALSE
    /\ aiLast = FALSE

\* what can stop a run before its placeholder exists
PreOutcomes == {"ok", "no_client", "no_bot_user", "create_failed"}

\* Send starts "go h.sendAIBotResponse(...)" or "go h.sendMentionedBotResponse(...)"
\* (a follow-up only while checkAutoFollowUp finds a recent bot response); the
\* run goes up to the broadcast of stream-start, or returns before it
StartRun(mode, pre) ==
    /\ aiPc \in {"idle", "done"}
    /\ aiMsg < MaxRuns
    /\ mode = "followup" => aiLast
    /\ aiMode' = mode
    /\ aiFull' = <<>>
    /\ aiFinal' = <<>>
    /\ aiErr' = FALSE
    /\ aiLines' = 0
    /\ aiUp' = <<>>
    /\ aiStoreErr' = FALSE
    /\ IF pre = "ok"
         THEN /\ aiMsg' = aiMsg + 1
              /\ aiRow' = CreateMessage(<<>>)
              /\ aiLog' = Broadcast(<<>>, StreamStart(aiMsg + 1))
              /\ aiPc' = "request"
         ELSE /\ aiRow' = NoRow
              /\ aiLog' = <<>>
              /\ aiPc' = "idle"
              /\ UNCHANGED aiMsg
    /\ UNCHANGED aiLast
    /\ UNCHANGED otherThanAI

\* checkAutoFollowUp: the recorded bot response is more than a minute old
FollowUpWindowEnds ==
    /\ aiLast
    /\ aiLast' = FALSE
    /\ UNCHANGED <<aiPc, aiMode, aiMsg, aiRow, aiFull, aiFinal, aiErr, aiLines, aiUp, aiLog, aiStoreErr>>
    /\ UNCHANGED otherThanAI

\* StreamResponseWithContext returns (text, err)
Returned(text, err) ==
    /\ aiPc' = "finalize"
    /\ aiErr' = err
    /\ aiFinal' = IF err THEN Apology ELSE text
    /\ UNCHANGED <<aiMode, aiMsg, aiRow, aiFull, aiLines, aiUp, aiLog, aiStoreErr, aiLast>>

RequestOutcomes == {"ok", "no_key", "transport", "status"}

\* StreamResponseWithContext up to the start of the scan of the response body:
\* no API key, a failed request and a status other than 200 return an error
OpenStream(outcome) ==
    /\ aiPc = "request"
    /\ IF outcome = "ok"
         THEN /\ aiPc' = "stream"
              /\ UNCHANGED <<aiMode, aiMsg, aiRow, aiFull, aiFinal, aiErr, aiLines, aiUp, aiLog,
                             aiStoreErr, aiLast>>
         ELSE Returned(<<>>, TRUE)
    /\ UNCHANGED otherThanAI

\* an accumulator that puts the new text in front
WriteStringFront(full, delta) == delta \o full

\* fullText.WriteString(delta)
WriteString(full, delta) == full \o delta

\* a "response.output_text.delta" line: accumulate, then callback(delta, fullText)
DeltaLine(delta) ==
    /\ aiPc = "stream"
    /\ aiLines < MaxLines
    /\ aiLines' = aiLines + 1
    /\ aiFull' = WriteString(aiFull, delta)
    /\ aiUp' = Append(aiUp, delta)
    /\ aiLog' = Broadcast(aiLog, StreamDelta(aiMsg, delta, WriteString(aiFull, delta)))
    /\ UNCHANGED <<aiPc, aiMode, aiMsg, aiRow, aiFinal, aiErr, aiStoreErr, aiLast>>
    /\ UNCHANGED otherThanAI

\* a "response.output_text.done" line: the accumulator is replaced by its text
DoneLine(text) ==
    /\ aiPc = "stream"
    /\ aiLines < MaxLines
    /\ aiLines' = aiLines + 1
    /\ aiFull' = text
    /\ UNCHANGED <<aiPc, aiMode, aiMsg, aiRow, aiFinal, aiErr, aiUp, aiLog, aiStoreErr, aiLast>>
    /\ UNCHANGED otherThanAI

\* a line the scan passes over: empty, a comment, not a data line, not JSON, an
\* event of another type, or an "error" event without error.message
IgnoredLine ==
    /\ aiPc = "stream"
    /\ aiLines < MaxLines
    /\ aiLines' = aiLines + 1
    /\ UNCHANGED <<aiPc, aiMode, aiMsg, aiRow, aiFull, aiFinal, aiErr, aiUp, aiLog, aiStoreErr, aiLast>>
    /\ UNCHANGED otherThanAI

\* an "error" event with error.message: return "", error
ErrorLine ==
    /\ aiPc = "stream"
    /\ aiLines < MaxLines
    /\ Returned(<<>>, TRUE)
    /\ UNCHANGED otherThanAI

StreamEndings == {"done_marker", "eof", "read_error"}

\* the scan ends: "[DONE]" or the end of the body return fullText, a read error returns an error
StreamEnds(how) ==
    /\ aiPc = "stream"
    /\ Returned(IF how = "read_error" THEN <<>> ELSE aiFull, how = "read_error")
    /\ UNCHANGED otherThanAI

\* the follow-up chose to pass: h.store.DeleteMessage(msg.ID), its error discarded
PassDelete(ok) ==
    /\ aiPc = "finalize"
    /\ IsPassRun(aiMode, aiFinal)
    /\ aiRow' = IF ok THEN DeleteMessage(aiRow) ELSE aiRow
    /\ aiStoreErr' = ~ok
    /\ aiPc' = "passend"
    /\ UNCHANGED <<aiMode, aiMsg, aiFull, aiFinal, aiErr, aiLines, aiUp, aiLog, aiLast>>
    /\ UNCHANGED otherThanAI

\* the pass: stream-end with empty content, return
PassStreamEnd ==
    /\ aiPc = "passend"
    /\ aiLog' = Broadcast(aiLog, StreamEnd(aiMsg, <<>>))
    /\ aiPc' = "done"
    /\ UNCHANGED <<aiMode, aiMsg, aiRow, aiFull, aiFinal, aiErr, aiLines, aiUp, aiStoreErr, aiLast>>
    /\ UNCHANGED otherThanAI

\* h.store.UpdateMessageContent(msg.ID, finalContent), its error logged
UpdateContent(ok) ==
    /\ aiPc = "finalize"
    /\ ~IsPassRun(aiMode, aiFinal)
    /\ aiRow' = IF ok THEN UpdateMessageContent(aiRow, aiFinal) ELSE aiRow
    /\ aiStoreErr' = ~ok
    /\ aiPc' = "end"
    /\ UNCHANGED <<aiMode, aiMsg, aiFull, aiFinal, aiErr, aiLines, aiUp, aiLog, aiLast>>
    /\ UNCHANGED otherThanAI

\* the broadcast of stream-end with finalContent
BroadcastStreamEnd ==
    /\ aiPc = "end"
    /\ aiLog' = Broadcast(aiLog, StreamEnd(aiMsg, aiFinal))
    /\ aiPc' = "notify"
    /\ UNCHANGED <<aiMode, aiMsg, aiRow, aiFull, aiFinal, aiErr, aiLines, aiUp, aiStoreErr, aiLast>>
    /\ UNCHANGED otherThanAI

\* the broadcast of new_message with msg.Content = finalContent; a mentioned or
\* follow-up run then records the response (recordBotResponse)
BroadcastNewMessage ==
    /\ aiPc = "notify"
    /\ aiLog' = Broadcast(aiLog, NewMessage(aiMsg, aiFinal))
    /\ aiLast' = IF aiMode = "dm" THEN aiLast ELSE TRUE
    /\ aiPc' = "done"
    /\ UNCHANGED <<aiMode, aiMsg, aiRow, aiFull, aiFinal, aiErr, aiLines, aiUp, aiStoreErr>>
    /\ UNCHANGED otherThanAI

AIModes == {"mention", "followup", "dm"}

AINext ==
    \/ \E mode \in AIModes, pre \in PreOutcomes : StartRun(mode, pre)
    \/ FollowUpWindowEnds
    \/ \E outcome \in RequestOutcomes : OpenStream(outcome)
    \/ \E delta \in Deltas : DeltaLine(delta)
    \/ \E text \in DoneTexts : DoneLine(text)
    \/ IgnoredLine
    \/ ErrorLine
    \/ \E how \in StreamEndings : StreamEnds(how)
    \/ \E ok \in BOOLEAN : PassDelete(ok)
    \/ PassStreamEnd
    \/ \E ok \in BOOLEAN : UpdateContent(ok)
    \/ BroadcastStreamEnd
    \/ BroadcastNewMessage

(***************************************************************************)
(* The git receive-pack endpoint (GitHandler.ReceivePack and the functions *)
(* it calls).  Objects are followed at the level of commits: a commit in   *)
(* the object store is there with its tree and blobs.                      *)
(***************************************************************************)
\* number of receive-pack requests
MaxPushes == 2
\* number of commands in one request
MaxCmds == 2

\* the all-zero hash, and the value of a reference that does not exist
Zero == "0000"
Absent == "absent"

\* the commit syncDatabaseToGit seeded the repository with, and the commits clients push
Seed == "c0"
Pushed == {"c1", "c2"}

RefNames == {"HEAD", "refs/heads/main", "refs/heads/dev"}

\* the tree of each commit: file name to blob content
TreeOf(commit) ==
    CASE commit = "c0" -> [name \in {"index.html", "styles.css", "script.js"} |->
                              CASE name = "index.html" -> "h0"
                                [] name = "styles.css" -> "s0"
                                [] name = "script.js" -> "j0"]
      [] commit = "c1" -> [name \in {"index.html", "styles.css", "script.js", "README"} |->
                              CASE name = "index.html" -> "h1"
                                [] name = "styles.css" -> "s1"
                                [] name = "script.js" -> "j1"
                                [] name = "README" -> "r1"]
      [] commit = "c2" -> [name \in {"index.html"} |-> "h2"]

NoCode == [html |-> "-", css |-> "-", js |-> "-"]

\* the loop over tree.Entries of syncGitToDatabase: the three known names, "" for a missing one
ExtractFiles(tree) ==
    [html |-> IF "index.html" \in DOMAIN tree THEN tree["index.html"] ELSE "",
     css |-> IF "styles.css" \in DOMAIN tree THEN tree["styles.css"] ELSE "",
     js |-> IF "script.js" \in DOMAIN tree THEN tree["script.js"] ELSE ""]

\* repo.Head(): HEAD is the symbolic reference to refs/heads/main unless a push made it a hash reference
RepoHead(refs) == IF refs["HEAD"] # Absent THEN refs["HEAD"] ELSE refs["refs/heads/main"]

\* a command: receivePackCommand{OldHash, NewHash, RefName}
Commands == [old : {Zero, Seed}, new : Pushed \cup {Zero}, ref : RefNames]

\* the requests' command lists
CommandLists == {<<>>} \cup {<<c>> : c \in Commands} \cup {<<c, d>> : c \in Commands, d \in Commands}

\* a packfile: the commits it carries in full, and whether a delta object follows them
Packs == [commits : SUBSET Pushed, delta : BOOLEAN]

\* updateRef: SetReference(NewHashReference(cmd.RefName, cmd.NewHash))
UpdateRef(refs, cmd) == [refs EXCEPT ![cmd.ref] = cmd.new]

\* "for _, cmd := range commands { h.updateRef(repo, cmd) }"
RECURSIVE UpdateRefs(_, _)
UpdateRefs(refs, cmds) ==
    IF cmds = <<>> THEN refs ELSE UpdateRefs(UpdateRef(refs, Head(cmds)), Tail(cmds))

\* repo.Head(), repo.CommitObject and commit.Tree() of syncGitToDatabase succeed
HeadReadable(refs, objects) == RepoHead(refs) \in objects

\* a store update that keeps the row as it is
KeepAppCode(code, new) == code

\* Store.UpdateAppCode
UpdateAppCode(code, new) == new

\* the role of a user without an app_members row
NoRole == "none"

\* the role column of app_members (AddAppMember stores the role it is given)
Roles == {"owner", "admin", "member"}

\* an authorization that lets everybody through
AuthorizeAnyone(members, u) == TRUE

\* authorizeRead: IsAppMember
AuthorizeRead(members, u) == members[u] # NoRole

\* authorizeWrite: GetAppMemberRole finds a row whose role is owner or admin
AuthorizeWrite(members, u) == members[u] \in {"owner", "admin"}

\* the user who created the app, whose owner row CreateApp inserts
Owner == "u1"

GitInit ==
    /\ appMembers = [u \in Users |-> IF u = Owner THEN "owner" ELSE NoRole]
    /\ gitUser = Owner
    /\ gitRead = [kind |-> "none", served |-> FALSE]
    /\ gitObjects = {Seed}
    /\ gitRefs = [r \in RefNames |-> IF r = "refs/heads/main" THEN Seed ELSE Absent]
    /\ appCode = ExtractFiles(TreeOf(Seed))
    /\ gitNew = {}
    /\ gitNames = <<>>
    /\ gitDelta = FALSE
    /\ gitReply = [status |-> "none", lines |-> <<>>]
    /\ gitSent = NoCode
    /\ gitPushes = 0

\* the requests ReceivePack turns away before it reads the body: invalid app id,
\* failed authentication, insufficient role, no repository
Rejections == {"400", "401", "403", "404"}

ReceivePackRejected(u, code) ==
    /\ gitPushes < MaxPushes
    /\ code = "403" => ~AuthorizeWrite(appMembers, u)
    /\ code = "404" => AuthorizeWrite(appMembers, u)
    /\ gitUser' = u
    /\ UNCHANGED <<appMembers, gitRead>>
    /\ gitPushes' = gitPushes + 1
    /\ gitNew' = {}
    /\ gitNames' = <<>>
    /\ gitDelta' = FALSE
    /\ gitReply' = [status |-> code, lines |-> <<>>]
    /\ gitSent' = NoCode
    /\ UNCHANGED <<gitObjects, gitRefs, appCode>>
    /\ UNCHANGED otherThanGit

\* sendReceivePackError / sendReceivePackSuccess
\* the pkt-lines of a status reply: the unpack line, the line of a reference, the flush
UnpackLine(msg) == <<"unpack", msg>>
OkLine(ref) == <<"ok", ref>>
Flush == <<"flush">>

\* a success reply that names the references last command first
SuccessReplyReversed(cmds) ==
    [status |-> "unpack ok",
     lines |-> <<UnpackLine("ok")>> \o [i \in 1..Len(cmds) |-> OkLine(cmds[Len(cmds) + 1 - i].ref)]
                 \o <<Flush>>]

\* the messages of the unpack failures
NoCommands == "No commands in request"
DeltaUnsupported == "Failed to apply packfile: delta objects not supported"
SyncFailed == "Failed to sync files"

\* an unpacking that takes every object
PackErrorNone(pack) == ""

\* applyPackfile: the error it returns, "" for none
PackError(pack) == IF pack.delta THEN DeltaUnsupported ELSE ""

ErrorReply(msg) == [status |-> "unpack error", lines |-> <<UnpackLine(msg), Flush>>]

SuccessReply(cmds) ==
    [status |-> "unpack ok",
     lines |-> <<UnpackLine("ok")>> \o [i \in 1..Len(cmds) |-> OkLine(cmds[i].ref)] \o <<Flush>>]

\* what the store does during a request: both calls succeed, UpdateAppCode
\* fails, or GetApp of broadcastCodeUpdate fails
StoreOutcomes == {"ok", "update fails", "fetch fails"}

\* ReceivePack of user u with the given commands and packfile, past the authorization
ReceivePack(u, cmds, pack, store) ==
    /\ gitPushes < MaxPushes
    /\ AuthorizeWrite(appMembers, u)
    /\ gitUser' = u
    /\ UNCHANGED <<appMembers, gitRead>>
    /\ gitPushes' = gitPushes + 1
    /\ gitNew' = {cmds[i].new : i \in 1..Len(cmds)}
    /\ gitNames' = [i \in 1..Len(cmds) |-> cmds[i].ref]
    /\ gitDelta' = (cmds # <<>> /\ pack.delta)
    /\ LET objects == gitObjects \cup pack.commits
           refs == UpdateRefs(gitRefs, cmds)
       IN IF cmds = <<>>
            THEN /\ gitReply' = ErrorReply(NoCommands)
                 /\ gitSent' = NoCode
                 /\ UNCHANGED <<gitObjects, gitRefs, appCode>>
          ELSE IF PackError(pack) # ""
            THEN /\ gitObjects' = objects
                 /\ gitReply' = ErrorReply(PackError(pack))
                 /\ gitSent' = NoCode
                 /\ UNCHANGED <<gitRefs, appCode>>
          ELSE IF ~HeadReadable(refs, objects) \/ store = "update fails"
            THEN /\ gitObjects' = objects
                 /\ gitRefs' = refs
                 /\ gitReply' = ErrorReply(SyncFailed)
                 /\ gitSent' = NoCode
                 /\ UNCHANGED appCode
          ELSE /\ gitObjects' = objects
               /\ gitRefs' = refs
               /\ appCode' = UpdateAppCode(appCode, ExtractFiles(TreeOf(RepoHead(refs))))
               /\ gitSent' = IF store = "fetch fails" THEN NoCode ELSE appCode'
               /\ gitReply' = SuccessReply(cmds)
    /\ UNCHANGED otherThanGit

GitNext ==
    \/ \E u \in Users, code \in Rejections : ReceivePackRejected(u, code)
    \/ \E cmds \in CommandLists, pack \in Packs, store \in StoreOutcomes :
          ReceivePack(Owner, cmds, pack, store)

\* the state of the repository and of the store a read request leaves alone
repoVars == <<gitObjects, gitRefs, appCode, gitNew, gitNames, gitDelta, gitReply, gitSent, gitPushes>>

\* the services InfoRefs is asked for
Services == {"git-upload-pack", "git-receive-pack", "other"}

\* InfoRefs of user u: the refs advertisement, served past the authorization of the service
InfoRefs(u, service) ==
    /\ gitUser' = u
    /\ gitRead' = [kind |-> "info-refs",
                   served |-> CASE service = "git-upload-pack" -> AuthorizeRead(appMembers, u)
                                [] service = "git-receive-pack" -> AuthorizeWrite(appMembers, u)
                                [] OTHER -> FALSE]
    /\ UNCHANGED <<repoVars, appMembers>>
    /\ UNCHANGED otherThanGit

\* UploadPack of user u: the packfile, served past authorizeRead
UploadPack(u) ==
    /\ gitUser' = u
    /\ gitRead' = [kind |-> "upload-pack", served |-> AuthorizeRead(appMembers, u)]
    /\ UNCHANGED <<repoVars, appMembers>>
    /\ UNCHANGED otherThanGit

\* AppsHandler.AddAppMember by user u: INSERT OR REPLACE of the target's row
AddAppMember(u, target, role) ==
    /\ appMembers[u] \in {"owner", "admin"}
    /\ appMembers' = [appMembers EXCEPT ![target] = role]
    /\ UNCHANGED <<repoVars, gitUser, gitRead>>
    /\ UNCHANGED otherThanGit

\* the requests of one command that moves the main branch off the seed commit
OneCommand == {<<c>> : c \in {d \in Commands : d.ref = "refs/heads/main" /\ d.old = Seed}}

\* the git endpoints next to the requests that change the app's members
GitAuthNext ==
    \/ \E u \in Users, code \in Rejections : ReceivePackRejected(u, code)
    \/ \E u \in Users, cmds \in OneCommand, pack \in Packs, store \in StoreOutcomes :
          ReceivePack(u, cmds, pack, store)
    \/ \E u \in Users, service \in Services : InfoRefs(u, service)
    \/ \E u \in Users : UploadPack(u)
    \/ \E u, target \in Users, role \in Roles : AddAppMember(u, target, role)

(***************************************************************************)
(* The reminder scheduler (ReminderHandler).  The clock advances between   *)
(* the ticks of the sweeper; a sweep takes less than the clock resolves.   *)
(***************************************************************************)
\* number of reminders created
NRems == 2
\* the clock advances by this many seconds at a time
Quantum == 15
\* the clock stops here
MaxTime == 60

\* time.NewTicker(30 * time.Second)
TickPeriod == 30

RemIds == 1..NRems

\* the texts users ask to be reminded of
Texts == {<<"a">>, <<"b">>}

\* the remind_at a request asks for: a time already past, or a time ahead
RemindTimes(t) == {0, t + Quantum}

\* the times of the clock
Times == 0..(MaxTime + Quantum)

NoReminder ==
    [state |-> "none", UserID |-> "", Message |-> <<>>, RemindAt |-> 0, CreatedAt |-> 0,
     Completed |-> FALSE]

Smackbot == "smackbot"

\* reminderMsg := bell + " **Reminder:** " + reminder.Message
ReminderMsg(text) == <<"bell", " ", "**Reminder:**", " ">> \o text

\* an update that changes no row
MarkNothing(table, id) == table

\* Store.MarkReminderComplete: UPDATE reminders SET completed = TRUE WHERE id = ?
MarkReminderComplete(table, id) ==
    IF table[id].state = "live" THEN [table EXCEPT ![id].Completed = TRUE] ELSE table

\* the WHERE clause of Store.GetDueReminders
IsDue(r, t) == r.state = "live" /\ ~r.Completed /\ r.RemindAt <= t

\* the results of Store.GetDueReminders: the due reminders, ORDER BY remind_at ASC
DueLists(table, t) ==
    LET ids == {id \in RemIds : IsDue(table[id], t)}
    IN {l \in [1..Cardinality(ids) -> ids] :
          /\ \A i, j \in DOMAIN l : i < j => l[i] # l[j] /\ table[l[i]].RemindAt <= table[l[j]].RemindAt}

\* the copy of a row a sweep works on
Snapshot(table, id) == [ID |-> id, UserID |-> table[id].UserID, Message |-> table[id].Message]

RemInit ==
    /\ now = 0
    /\ nextTick = TickPeriod
    /\ reminders = [id \in RemIds |-> NoReminder]
    /\ created = 0
    /\ due = <<>>
    /\ dmExists = {}
    /\ dmMsgs = [u \in Users |-> <<>>]
    /\ strayMsgs = <<>>
    /\ hubOut = {}
    /\ swept = [id \in RemIds |-> "none"]

\* time passes, up to the next tick
Advance ==
    /\ due = <<>>
    /\ now < nextTick
    /\ now < MaxTime
    /\ now' = (IF now + Quantum < nextTick THEN now + Quantum ELSE nextTick)
    /\ UNCHANGED <<nextTick, reminders, created, due, dmExists, dmMsgs, strayMsgs, hubOut, swept>>
    /\ UNCHANGED otherThanRem

\* ReminderHandler.Create with a valid body, and Store.CreateReminder
Create(user, text, at) ==
    /\ created < NRems
    /\ at \in RemindTimes(now)
    /\ created' = created + 1
    /\ reminders' = [reminders EXCEPT ![created + 1] =
                        [state |-> "live", UserID |-> user, Message |-> text, RemindAt |-> at,
                         CreatedAt |-> now, Completed |-> FALSE]]
    /\ UNCHANGED <<now, nextTick, due, dmExists, dmMsgs, strayMsgs, hubOut, swept>>
    /\ UNCHANGED otherThanRem

\* ReminderHandler.Delete by the reminder's user, and Store.DeleteReminder
Delete(id) ==
    /\ reminders[id].state = "live"
    /\ reminders' = [reminders EXCEPT ![id] = [NoReminder EXCEPT !.state = "deleted"]]
    /\ swept' = [swept EXCEPT ![id] = "none"]
    /\ UNCHANGED <<now, nextTick, created, due, dmExists, dmMsgs, strayMsgs, hubOut>>
    /\ UNCHANGED otherThanRem

\* a tick of the sweeper: checkAndSendReminders up to its loop
CheckAndSendReminders(fetched) ==
    /\ now = nextTick
    /\ due = <<>>
    /\ nextTick' = nextTick + TickPeriod
    /\ IF fetched
         THEN /\ \E l \in DueLists(reminders, now) :
                    due' = [i \in DOMAIN l |-> Snapshot(reminders, l[i])]
              /\ UNCHANGED swept
         ELSE /\ due' = <<>>
              /\ swept' = [id \in RemIds |->
                              IF IsDue(reminders[id], now) THEN "fetch fails" ELSE swept[id]]
    /\ UNCHANGED <<now, reminders, created, dmExists, dmMsgs, strayMsgs, hubOut>>
    /\ UNCHANGED otherThanRem

\* how one turn of the loop of checkAndSendReminders ends: every call succeeds,
\* or one call of the store fails
Outcomes == {"ok", "dm fails", "join fails", "smackbot fails", "create fails", "mark fails"}

\* a loop that a failed call ends ("return")
RestAfterReturn(l, outcome) ==
    IF outcome \in {"dm fails", "smackbot fails", "create fails"} THEN <<>> ELSE Tail(l)

\* the reminders the loop still has to handle after a turn: a failed call
\* ends the turn with "continue"
RestAfter(l, outcome) == Tail(l)

\* one turn of the loop of checkAndSendReminders
SendReminder(outcome) ==
    /\ due # <<>>
    /\ LET reminder == Head(due)
           user == reminder.UserID
           joined == user \in dmExists \/ outcome # "join fails"
           msg == [author |-> Smackbot, content |-> ReminderMsg(reminder.Message)]
       IN /\ due' = RestAfter(due, outcome)
          /\ swept' = (IF reminders[reminder.ID].state = "live"
                        THEN [swept EXCEPT ![reminder.ID] = outcome] ELSE swept)
          /\ dmExists' = (IF outcome # "dm fails" /\ joined THEN dmExists \cup {user} ELSE dmExists)
          /\ IF outcome \in {"dm fails", "smackbot fails", "create fails"}
               THEN UNCHANGED <<dmMsgs, strayMsgs, hubOut, reminders>>
               ELSE /\ IF joined
                         THEN /\ dmMsgs' = [dmMsgs EXCEPT ![user] = Append(@, msg)]
                              /\ UNCHANGED strayMsgs
                         ELSE /\ strayMsgs' = Append(strayMsgs, msg)
                              /\ UNCHANGED dmMsgs
                    /\ hubOut' = hubOut \cup
                          {[type |-> "new_message", to |-> user, joined |-> joined,
                            payload |-> msg.content],
                           [type |-> "reminder", to |-> user, joined |-> TRUE,
                            payload |-> reminder.Message]}
                    /\ reminders' = (IF outcome = "mark fails" THEN reminders
                                     ELSE MarkReminderComplete(reminders, reminder.ID))
    /\ UNCHANGED <<now, nextTick, created>>
    /\ UNCHANGED otherThanRem

RemNext ==
    \/ Advance
    \/ \E user \in Users, text \in Texts, at \in Times : Create(user, text, at)
    \/ \E id \in RemIds : Delete(id)
    \/ \E fetched \in BOOLEAN : CheckAndSendReminders(fetched)
    \/ \E outcome \in Outcomes : SendReminder(outcome)

(***************************************************************************)
(* The open-DM endpoint (ChannelHandler.CreateDM, Store.GetOrCreateDMChannel). *)
(* Each statement of the store is one step: the handler holds no           *)
(* transaction across them.                                                *)
(***************************************************************************)
\* number of requests in flight at once
NOpeners == 2
\* number of open-DM requests
MaxOpens == 3

Openers == 1..NOpeners
ChanIds == 1..MaxOpens

\* an id no channels row has
NoMembers == {"-"}

\* the rows of the SELECT of GetOrCreateDMChannel: direct channels both users are members of
DirectChannels(chs, a, b) == {id \in ChanIds : {a, b} \subseteq chs[id]}

\* Store.JoinChannel: INSERT OR IGNORE INTO channel_members
JoinChannel(chs, id, u) == [chs EXCEPT ![id] = @ \cup {u}]

\* Store.CreateChannel(name, "", createdBy, true): the row, then the creator joins
CreateChannel(chs, id, u) == JoinChannel([chs EXCEPT ![id] = {}], id, u)

DMInit ==
    /\ channels = [id \in ChanIds |-> NoMembers]
    /\ nextChan = 0
    /\ opc = [r \in Openers |-> "idle"]
    /\ ofrom = [r \in Openers |-> "u1"]
    /\ oto = [r \in Openers |-> "u2"]
    /\ ofound = [r \in Openers |-> 0]
    /\ oret = [r \in Openers |-> 0]
    /\ opens = 0

\* CreateDM with a valid body, and the SELECT of GetOrCreateDMChannel
CreateDM(r, a, b) ==
    /\ opc[r] \in {"idle", "done"}
    /\ opens < MaxOpens
    /\ a # b
    /\ opens' = opens + 1
    /\ ofrom' = [ofrom EXCEPT ![r] = a]
    /\ oto' = [oto EXCEPT ![r] = b]
    /\ oret' = [oret EXCEPT ![r] = 0]
    /\ \E id \in IF DirectChannels(channels, a, b) = {} THEN {0} ELSE DirectChannels(channels, a, b) :
          ofound' = [ofound EXCEPT ![r] = id]
    /\ opc' = [opc EXCEPT ![r] = "queried"]
    /\ UNCHANGED <<channels, nextChan>>
    /\ UNCHANGED otherThanDM

\* "if err == nil { return s.GetChannel(channelID) }"
ReturnExisting(r) ==
    /\ opc[r] = "queried"
    /\ ofound[r] # 0
    /\ oret' = [oret EXCEPT ![r] = ofound[r]]
    /\ opc' = [opc EXCEPT ![r] = "done"]
    /\ UNCHANGED <<channels, nextChan, ofrom, oto, ofound, opens>>
    /\ UNCHANGED otherThanDM

\* s.CreateChannel(channelName, "", user1ID, true); inserted = FALSE: the INSERT fails, reply 500
CreateDirect(r, inserted) ==
    /\ opc[r] = "queried"
    /\ ofound[r] = 0
    /\ IF inserted
         THEN /\ nextChan' = nextChan + 1
              /\ channels' = CreateChannel(channels, nextChan + 1, ofrom[r])
              /\ ofound' = [ofound EXCEPT ![r] = nextChan + 1]
              /\ opc' = [opc EXCEPT ![r] = "created"]
         ELSE /\ opc' = [opc EXCEPT ![r] = "done"]
              /\ UNCHANGED <<channels, nextChan, ofound>>
    /\ UNCHANGED <<ofrom, oto, oret, opens>>
    /\ UNCHANGED otherThanDM

\* s.JoinChannel(channel.ID, user2ID), its error discarded, and the reply
AddSecondUser(r, joined) ==
    /\ opc[r] = "created"
    /\ channels' = (IF joined THEN JoinChannel(channels, ofound[r], oto[r]) ELSE channels)
    /\ oret' = [oret EXCEPT ![r] = ofound[r]]
    /\ opc' = [opc EXCEPT ![r] = "done"]
    /\ UNCHANGED <<nextChan, ofrom, oto, ofound, opens>>
    /\ UNCHANGED otherThanDM

DMNext ==
    \/ \E r \in Openers, a, b \in Users : CreateDM(r, a, b)
    \/ \E r \in Openers : ReturnExisting(r)
    \/ \E r \in Openers, inserted \in BOOLEAN : CreateDirect(r, inserted)
    \/ \E r \in Openers, joined \in BOOLEAN : AddSecondUser(r, joined)

(***************************************************************************)
(* The delete-message endpoint (MessageHandler.Delete, Store.DeleteMessage) *)
(* next to the requests that add replies and reactions.  Every statement   *)
(* of the store is one step.                                               *)
(***************************************************************************)
\* number of messages rows inserted
MaxRows == 3

RowIds == 1..MaxRows

\* the thread_id of an id that has no row
Gone == -1

\* the ids of the rows present
Present(table) == {id \in RowIds : table[id] # Gone}

\* the rows "WHERE thread_id = ?" selects
RepliesOf(table, id) == {k \in RowIds : table[k] = id}

\* a DELETE of the rows in ids; with foreign keys enforced, "ON DELETE CASCADE"
\* of reactions.message_id removes their reactions in the same statement
DeleteRows(table, ids) == [k \in RowIds |-> IF k \in ids THEN Gone ELSE table[k]]
CascadeReactions(rs, ids, fk) == IF fk THEN rs \ ids ELSE rs

\* the empty tables of a fresh database
DelTables ==
    /\ rows = [id \in RowIds |-> Gone]
    /\ reacts = {}
    /\ rowCtr = 0
    /\ dpc = "idle"
    /\ dId = 0
    /\ doomedRows = {}
    /\ doomedReacts = {}

\* a connection of the default build, which leaves foreign keys off
DelInit == foreignKeys = FALSE /\ DelTables

\* a connection of either build of the driver, foreign keys off or on
DelInitAnyBuild == foreignKeys \in BOOLEAN /\ DelTables

\* Store.CreateMessageWithHTML for a top-level message (thread 0) or a reply
InsertMessage(thread) ==
    /\ rowCtr < MaxRows
    /\ thread = 0 \/ (thread \in Present(rows) /\ rows[thread] = 0)
    /\ rowCtr' = rowCtr + 1
    /\ rows' = [rows EXCEPT ![rowCtr + 1] = thread]
    /\ UNCHANGED <<foreignKeys, reacts, dpc, dId, doomedRows, doomedReacts>>
    /\ UNCHANGED otherThanDel

\* Store.AddReaction on a message that exists
AddReaction(id) ==
    /\ id \in Present(rows)
    /\ id \notin reacts
    /\ reacts' = reacts \cup {id}
    /\ UNCHANGED <<foreignKeys, rows, rowCtr, dpc, dId, doomedRows, doomedReacts>>
    /\ UNCHANGED otherThanDel

\* MessageHandler.Delete by the author: GetMessage finds the row
DeleteBegin(id) ==
    /\ dpc = "idle"
    /\ id \in Present(rows)
    /\ dId' = id
    /\ doomedRows' = {id} \cup RepliesOf(rows, id)
    /\ doomedReacts' = reacts \cap {id}
    /\ dpc' = "replies"
    /\ UNCHANGED <<foreignKeys, rows, reacts, rowCtr>>
    /\ UNCHANGED otherThanDel

\* "DELETE FROM messages WHERE thread_id = ?"; done = FALSE: the statement fails, reply 500
DeleteReplies(done) ==
    /\ dpc = "replies"
    /\ IF done
         THEN /\ rows' = DeleteRows(rows, RepliesOf(rows, dId))
              /\ reacts' = CascadeReactions(reacts, RepliesOf(rows, dId), foreignKeys)
              /\ dpc' = "row"
         ELSE /\ dpc' = "idle"
              /\ UNCHANGED <<rows, reacts>>
    /\ UNCHANGED <<foreignKeys, rowCtr, dId, doomedRows, doomedReacts>>
    /\ UNCHANGED otherThanDel

\* "DELETE FROM messages WHERE id = ?"; done = FALSE: the statement fails, reply 500
DeleteRow(done) ==
    /\ dpc = "row"
    /\ IF done
         THEN /\ rows' = DeleteRows(rows, {dId})
              /\ reacts' = CascadeReactions(reacts, {dId}, foreignKeys)
         ELSE UNCHANGED <<rows, reacts>>
    /\ dpc' = "idle"
    /\ UNCHANGED <<foreignKeys, rowCtr, dId, doomedRows, doomedReacts>>
    /\ UNCHANGED otherThanDel

DelNext ==
    \/ \E thread \in 0..MaxRows : InsertMessage(thread)
    \/ \E id \in RowIds : AddReaction(id)
    \/ \E id \in RowIds : DeleteBegin(id)
    \/ \E done \in BOOLEAN : DeleteReplies(done)
    \/ \E done \in BOOLEAN : DeleteRow(done)

(***************************************************************************)
(* The dispatch of a posted message to an AI run (MessageHandler.Send,     *)
(* findMentionedBot, checkAutoFollowUp, recordBotResponse).                *)
(***************************************************************************)
\* number of send-message requests
MaxSends == 3
\* the clock runs up to MaxClock in steps of ClockStep seconds
MaxClock == 90
ClockStep == 30
\* time.Minute, in seconds
Minute == 60

NoBot == "none"

\* the bots table in the order of GetAllBots (ORDER BY name)
Bots ==
    <<[id |-> "al", name |-> <<"a", "l">>, display |-> <<"A", "l">>],
      [id |-> "bo", name |-> <<"b", "o">>, display |-> <<"B", "e", "a">>]>>

BotIds == {Bots[i].id : i \in 1..Len(Bots)}

\* the channels of the requests, and the bot_channels table: "dm" is bound to a bot
SendChans == {"dm", "general"}
BotChannels == [c \in SendChans |-> IF c = "dm" THEN "bo" ELSE NoBot]

\* the texts of the requests: empty, "hi", "@bot-al", "@BOT-BO", "@bea", "@bot-bo@al"
Contents ==
    {<<>>,
     <<"h", "i">>,
     <<"@", "b", "o", "t", "-", "a", "l">>,
     <<"@", "B", "O", "T", "-", "B", "O">>,
     <<"@", "b", "e", "a">>,
     <<"@", "b", "o", "t", "-", "b", "o", "@", "a", "l">>}

\* strings.Contains
Contains(s, sub) == \E i \in 0..(Len(s) - Len(sub)) : SubSeq(s, i + 1, i + Len(sub)) = sub

\* the test of findMentionedBot for one bot: "@bot-" + lower(Name) or "@" + lower(DisplayName)
Mentions(bot, content) ==
    \/ Contains(ToLower(content), <<"@", "b", "o", "t", "-">> \o ToLower(bot.name))
    \/ Contains(ToLower(content), <<"@">> \o ToLower(bot.display))

\* findMentionedBot: the first bot of the list that the content mentions
FindMentionedBot(bots, content) ==
    LET hits == {i \in 1..Len(bots) : Mentions(bots[i], content)}
    IN IF hits = {} THEN NoBot ELSE bots[CHOOSE i \in hits : \A j \in hits : i <= j].id

NoResponse == [bot |-> NoBot, timestamp |-> 0]

\* a follow-up check that does not look at the time
CheckFollowUpAnyTime(last, ch, t) == last[ch].bot

\* checkAutoFollowUp: time.Since(info.timestamp) <= time.Minute
CheckAutoFollowUp(last, ch, t) ==
    IF last[ch].bot # NoBot /\ t - last[ch].timestamp <= Minute THEN last[ch].bot ELSE NoBot

SendInit ==
    /\ clock = 0
    /\ lastBotResponse = [c \in SendChans |-> NoResponse]
    /\ sendReq = [channel |-> "general", content |-> <<>>, outcome |-> "ok"]
    /\ sendRuns = <<>>
    /\ pendingRuns = {}
    /\ sends = 0

\* what the store does during Send: every call succeeds, CreateMessage fails,
\* the query of IsBotChannel fails, GetAllBots fails
SendOutcomes == {"ok", "create fails", "lookup fails", "bots fail"}

\* MessageHandler.Send: 400 for an empty content, 500 when the row is not
\* created, else the row, the broadcast and at most one "go" statement
Send(ch, content, outcome) ==
    /\ sends < MaxSends
    /\ sends' = sends + 1
    /\ sendReq' = [channel |-> ch, content |-> content, outcome |-> outcome]
    /\ LET posted == content # <<>> /\ outcome # "create fails"
           isBotChannel == outcome # "lookup fails" /\ BotChannels[ch] # NoBot
           mentionedBot == IF outcome = "bots fail" THEN NoBot ELSE FindMentionedBot(Bots, content)
           followUpBot == CheckAutoFollowUp(lastBotResponse, ch, clock)
       IN IF ~posted
            THEN /\ sendRuns' = <<>>
                 /\ UNCHANGED pendingRuns
          ELSE IF isBotChannel
            THEN /\ sendRuns' = <<[kind |-> "dm", bot |-> BotChannels[ch]]>>
                 /\ UNCHANGED pendingRuns
          ELSE IF mentionedBot # NoBot
            THEN /\ sendRuns' = <<[kind |-> "mention", bot |-> mentionedBot]>>
                 /\ pendingRuns' = pendingRuns \cup {<<ch, mentionedBot>>}
          ELSE IF followUpBot # NoBot
            THEN /\ sendRuns' = <<[kind |-> "followup", bot |-> followUpBot]>>
                 /\ pendingRuns' = pendingRuns \cup {<<ch, followUpBot>>}
          ELSE /\ sendRuns' = <<>>
               /\ UNCHANGED pendingRuns
    /\ UNCHANGED <<clock, lastBotResponse>>
    /\ UNCHANGED otherThanSend

\* the end of sendMentionedBotResponse: recordBotResponse after the final
\* broadcast, or a return before it (no client, a failed placeholder, a pass)
RunEnds(ch, bot, recorded) ==
    /\ <<ch, bot>> \in pendingRuns
    /\ pendingRuns' = pendingRuns \ {<<ch, bot>>}
    /\ lastBotResponse' = IF recorded
                            THEN [lastBotResponse EXCEPT ![ch] = [bot |-> bot, timestamp |-> clock]]
                            ELSE lastBotResponse
    /\ UNCHANGED <<clock, sendReq, sendRuns, sends>>
    /\ UNCHANGED otherThanSend

\* time passes
Tick ==
    /\ clock + ClockStep <= MaxClock
    /\ clock' = clock + ClockStep
    /\ UNCHANGED <<lastBotResponse, sendReq, sendRuns, pendingRuns, sends>>
    /\ UNCHANGED otherThanSend

SendNext ==
    \/ \E ch \in SendChans, content \in Contents, outcome \in SendOutcomes : Send(ch, content, outcome)
    \/ \E ch \in SendChans, bot \in BotIds, recorded \in BOOLEAN : RunEnds(ch, bot, recorded)
    \/ Tick

(***************************************************************************)
(* The context of an AI run (the context assembly of                       *)
(* sendMentionedBotResponse and sendAIBotResponse over                     *)
(* Store.GetChannelMessages).                                              *)
(***************************************************************************)
\* number of messages rows of the channel
MaxLog == 5
\* number of runs
MaxCtxRuns == 2
\* the limits of the fetch: 4 for a mentioned bot, 29 for a bound bot
MentionLimit == 4
BoundLimit == 29

\* the authors and the contents of the rows; "bot" is the bot of the run
Authors == {"u1", "bot"}
Words == {"a", "b"}

\* models.MessageWithUser, as far as the context looks at it
Row(author, content) == [user |-> author, content |-> content]

\* the slice reversal at the end of GetChannelMessagesBefore
RECURSIVE Reverse(_)
Reverse(s) == IF s = <<>> THEN <<>> ELSE Reverse(Tail(s)) \o <<Head(s)>>

\* "ORDER BY m.created_at DESC LIMIT ?" over rows kept in the order of created_at
NewestFirst(log, limit) == [i \in 1..(IF Len(log) < limit THEN Len(log) ELSE limit) |-> log[Len(log) + 1 - i]]

\* Store.GetChannelMessages: the newest rows up to the limit, reversed before they are returned
GetChannelMessages(log, limit) == Reverse(NewestFirst(log, limit))

\* ai.NewTextMessage
NewTextMessage(role, content) == [role |-> role, content |-> content]

\* the loop "for i := len(recentMessages) - 1; i >= 0; i--": the rows from the
\* last to the first, without those whose content is the user text
RECURSIVE ContextOf(_, _)
ContextOf(recent, text) ==
    IF recent = <<>> THEN <<>>
    ELSE LET msg == recent[Len(recent)]
             rest == ContextOf(SubSeq(recent, 1, Len(recent) - 1), text)
         IN IF msg.content = text
              THEN rest
              ELSE <<NewTextMessage(IF msg.user = "bot" THEN "assistant" ELSE "user", msg.content)>> \o rest

CtxInit ==
    /\ chanLog = <<>>
    /\ ctxFetched = <<>>
    /\ ctxText = "a"
    /\ ctxSent = <<>>
    /\ ctxRuns = 0

\* Store.CreateMessage of a top-level message
PostMessage(author, content) ==
    /\ Len(chanLog) < MaxLog
    /\ chanLog' = Append(chanLog, Row(author, content))
    /\ UNCHANGED <<ctxFetched, ctxText, ctxSent, ctxRuns>>
    /\ UNCHANGED otherThanCtx

\* the context assembly of a run for the user text: the fetch (a failed fetch
\* counts as no messages), the loop, the user text as the last message
BuildContext(limit, text, fetched) ==
    /\ ctxRuns < MaxCtxRuns
    /\ ctxRuns' = ctxRuns + 1
    /\ ctxText' = text
    /\ ctxFetched' = IF fetched THEN GetChannelMessages(chanLog, limit) ELSE <<>>
    /\ ctxSent' = Append(ContextOf(ctxFetched', text), NewTextMessage("user", text))
    /\ UNCHANGED chanLog
    /\ UNCHANGED otherThanCtx

CtxNext ==
    \/ \E author \in Authors, content \in Words : PostMessage(author, content)
    \/ \E limit \in {MentionLimit, BoundLimit}, text \in Words, fetched \in BOOLEAN :
          BuildContext(limit, text, fetched)

(***************************************************************************)
(* The members of an app and of a kanban board (AppsHandler and            *)
(* KanbanHandler: AddAppMember, RemoveAppMember, AddBoardMember,           *)
(* RemoveBoardMember).                                                     *)
(***************************************************************************)
\* number of remove-member requests
MaxRemoves == 3

\* "role != "owner" && role != "admin"" is false
CanManage(role) == role \in {"owner", "admin"}

\* an owner test that finds no owner
IsOwnerNever(role) == FALSE

\* "targetRole == "owner""
IsOwner(role) == role = "owner"

\* the role GetAppMemberRole / GetBoardMemberRole hands back: "" with an error
\* when the row is missing or the query fails
MemberRole(members, u, failed) == IF failed \/ members[u] = NoRole THEN "" ELSE members[u]

\* Store.RemoveAppMember / Store.RemoveBoardMember
RemoveMember(members, u) == [members EXCEPT ![u] = NoRole]

MemInit ==
    /\ boardMembers = [u \in Users |-> IF u = Owner THEN "owner" ELSE NoRole]
    /\ memReq = [table |-> "none", by |-> Owner, target |-> Owner, outcome |-> "ok", status |-> "none"]
    /\ removes = 0

\* what the store does during a remove-member request: every call succeeds,
\* the read of the requester's role fails, the read of the target's role
\* fails, the DELETE fails
RemoveOutcomes == {"ok", "role fails", "target fails", "delete fails"}

\* the status of a remove-member request and whether it reaches the DELETE
RemoveStatus(members, by, target, outcome, removed) ==
    IF ~CanManage(MemberRole(members, by, outcome = "role fails")) THEN "403"
    ELSE IF IsOwner(MemberRole(members, target, outcome = "target fails")) THEN "400"
    ELSE IF outcome = "delete fails" THEN "500"
    ELSE removed

\* AppsHandler.RemoveAppMember
RemoveAppMember(by, target, outcome) ==
    /\ removes < MaxRemoves
    /\ removes' = removes + 1
    /\ LET answer == RemoveStatus(appMembers, by, target, outcome, "204")
       IN /\ memReq' = [table |-> "app", by |-> by, target |-> target, outcome |-> outcome,
                        status |-> answer]
          /\ appMembers' = IF answer = "204" THEN RemoveMember(appMembers, target) ELSE appMembers
    /\ UNCHANGED <<repoVars, gitUser, gitRead, boardMembers>>
    /\ UNCHANGED otherThanGitMem

\* KanbanHandler.AddBoardMember: INSERT OR REPLACE of the target's row
AddBoardMember(u, target, role) ==
    /\ CanManage(MemberRole(boardMembers, u, FALSE))
    /\ boardMembers' = [boardMembers EXCEPT ![target] = role]
    /\ UNCHANGED <<memReq, removes>>
    /\ UNCHANGED otherThanMem

\* KanbanHandler.RemoveBoardMember
RemoveBoardMember(by, target, outcome) ==
    /\ removes < MaxRemoves
    /\ removes' = removes + 1
    /\ LET answer == RemoveStatus(boardMembers, by, target, outcome, "200")
       IN /\ memReq' = [table |-> "board", by |-> by, target |-> target, outcome |-> outcome,
                        status |-> answer]
          /\ boardMembers' = IF answer = "200" THEN RemoveMember(boardMembers, target) ELSE boardMembers
    /\ UNCHANGED otherThanMem

MemNext ==
    \/ \E u, target \in Users, role \in Roles : AddAppMember(u, target, role)
    \/ \E u, target \in Users, role \in Roles : AddBoardMember(u, target, role)
    \/ \E by, target \in Users, outcome \in RemoveOutcomes : RemoveAppMember(by, target, outcome)
    \/ \E by, target \in Users, outcome \in RemoveOutcomes : RemoveBoardMember(by, target, outcome)

(***************************************************************************)
(* The authors of messages (WebhookHandler.Create and Incoming,            *)
(* Store.EnsureBotUser, Store.CreateBot, the AI runs, AuthHandler.Register *)
(* and MessageHandler.Send).                                               *)
(***************************************************************************)
\* number of webhooks
MaxHooks == 2

HookIds == 1..MaxHooks
NoHook == "-"

\* the names given to webhooks and bots, and the usernames people register
Names == {"ci", "ops"}
Usernames == {<<"webhook-", "ci">>, <<"bot-", "ops">>, <<"al">>}

\* the ids of the users rows
UserIdsOf(users) == {row.id : row \in users}

\* EnsureBotUser: INSERT OR IGNORE INTO users; a row with the same id or the
\* same username makes the statement a no-op
EnsureBotUser(users, id, username) ==
    IF \E row \in users : row.id = id \/ row.username = username
      THEN users
      ELSE users \cup {[id |-> id, username |-> username]}

HookInit ==
    /\ userRows = {}
    /\ hooks = [id \in HookIds |-> NoHook]
    /\ botRows = {}
    /\ msgAuthors = {}
    /\ hookReply = "none"
    /\ hookCtr = 0

\* AuthHandler.Register: 409 for a username that is taken, else Store.CreateUser
Register(username) ==
    /\ \A row \in userRows : row.username # username
    /\ userRows' = userRows \cup {[id |-> <<"user", username>>, username |-> username]}
    /\ UNCHANGED <<hooks, botRows, msgAuthors, hookReply, hookCtr>>
    /\ UNCHANGED otherThanHook

\* MessageHandler.Send of a registered user
UserPost(username) ==
    /\ \E row \in userRows : row.username = username /\ row.id = <<"user", username>>
    /\ msgAuthors' = msgAuthors \cup {<<"user", username>>}
    /\ UNCHANGED <<userRows, hooks, botRows, hookReply, hookCtr>>
    /\ UNCHANGED otherThanHook

\* WebhookHandler.Create: any name, a fresh id
CreateWebhook(name) ==
    /\ hookCtr < MaxHooks
    /\ hookCtr' = hookCtr + 1
    /\ hooks' = [hooks EXCEPT ![hookCtr + 1] = name]
    /\ UNCHANGED <<userRows, botRows, msgAuthors, hookReply>>
    /\ UNCHANGED otherThanHook

\* WebhookHandler.Incoming for a valid webhook and token: EnsureBotUser (its
\* error is dropped), then CreateMessageWithHTML, which the store refuses only
\* when it enforces foreign keys and the author has no row
Incoming(id, ensured) ==
    /\ hooks[id] # NoHook
    /\ LET webhookUserID == <<"webhook-", id>>
           users == IF ensured
                      THEN EnsureBotUser(userRows, webhookUserID, <<"webhook-", hooks[id]>>)
                      ELSE userRows
           inserted == ~foreignKeys \/ webhookUserID \in UserIdsOf(users)
       IN /\ userRows' = users
          /\ msgAuthors' = IF inserted THEN msgAuthors \cup {webhookUserID} ELSE msgAuthors
          /\ hookReply' = IF inserted THEN "200" ELSE "500"
    /\ UNCHANGED <<hooks, botRows, hookCtr>>
    /\ UNCHANGED otherThanHook

\* Store.CreateBot: INSERT OR IGNORE of the bot's user, then of the bot
CreateBot(name) ==
    /\ userRows' = EnsureBotUser(userRows, <<"bot", name>>, <<"bot-", name>>)
    /\ botRows' = botRows \cup {name}
    /\ UNCHANGED <<hooks, msgAuthors, hookReply, hookCtr>>
    /\ UNCHANGED otherThanHook

\* an AI run of a bot: it returns when GetUserByID(bot.ID) finds no row, and
\* creates its placeholder message otherwise
BotPost(name) ==
    /\ name \in botRows
    /\ msgAuthors' = IF <<"bot", name>> \in UserIdsOf(userRows)
                       THEN msgAuthors \cup {<<"bot", name>>}
                       ELSE msgAuthors
    /\ UNCHANGED <<userRows, hooks, botRows, hookReply, hookCtr>>
    /\ UNCHANGED otherThanHook

HookNext ==
    \/ \E username \in Usernames : Register(username)
    \/ \E username \in Usernames : UserPost(username)
    \/ \E name \in Names : CreateWebhook(name)
    \/ \E id \in HookIds, ensured \in BOOLEAN : Incoming(id, ensured)
    \/ \E name \in Names : CreateBot(name)
    \/ \E name \in Names : BotPost(name)

(***************************************************************************)
(* The channel of a message and of its parent (MessageHandler.Send with a  *)
(* thread id, MessageHandler.Reply, Store.CreateMessageWithHTML).          *)
(***************************************************************************)
\* number of messages rows
MaxThreadRows == 3

MsgIds == 1..MaxThreadRows
ThreadChans == {"c1", "c2"}
NoMsg == [channel |-> "-", thread |-> 0]

\* the INSERT of CreateMessageWithHTML is refused only when the store enforces
\* foreign keys and the thread id names no row
Insertable(table, thread, fk) == IF thread = 0 \/ ~fk THEN TRUE ELSE table[thread] # NoMsg

\* "parent.ChannelID" of MessageHandler.Reply
ChannelOfParent(table, thread, channel) == table[thread].channel

ThrInit ==
    /\ threadRows = [id \in MsgIds |-> NoMsg]
    /\ thrCtr = 0

\* MessageHandler.Send: CreateMessage(req.ChannelID, userID, req.Content, req.ThreadID)
SendMessage(channel, thread) ==
    /\ thrCtr < MaxThreadRows
    /\ Insertable(threadRows, thread, foreignKeys)
    /\ thrCtr' = thrCtr + 1
    /\ threadRows' = [threadRows EXCEPT ![thrCtr + 1] = [channel |-> channel, thread |-> thread]]
    /\ UNCHANGED otherThanThr

\* MessageHandler.Reply: 404 unless GetMessage finds the parent, then
\* CreateMessage(parent.ChannelID, userID, req.Content, &threadID)
Reply(thread) ==
    /\ thrCtr < MaxThreadRows
    /\ threadRows[thread] # NoMsg
    /\ thrCtr' = thrCtr + 1
    /\ threadRows' = [threadRows EXCEPT ![thrCtr + 1] =
                         [channel |-> ChannelOfParent(threadRows, thread, "-"), thread |-> thread]]
    /\ UNCHANGED otherThanThr

ThrNext ==
    \/ \E channel \in ThreadChans, thread \in {0} \cup MsgIds : SendMessage(channel, thread)
    \/ \E thread \in MsgIds : Reply(thread)

(***************************************************************************)
(* The limit of MessageHandler.GetChannelMessages.                         *)
(***************************************************************************)
\* length of the "limit" query parameter
MaxParamLen == 3
\* "limit := 50" and the bound of "parsed <= 100"
DefaultLimit == 50
LimitCap == 100

\* the characters of the parameter
ParamChars == {"-", "0", "1", "5", "x"}
DigitValue == [c \in {"0", "1", "5"} |-> CASE c = "0" -> 0 [] c = "1" -> 1 [] c = "5" -> 5]

\* the parameters: the strings of ParamChars up to MaxParamLen characters
Params == UNION {[1..n -> ParamChars] : n \in 0..MaxParamLen}

IsDigits(s) == s # <<>> /\ \A i \in 1..Len(s) : s[i] \in DOMAIN DigitValue

\* the value of a string of decimal digits
RECURSIVE Decimal(_)
Decimal(s) == IF s = <<>> THEN 0 ELSE 10 * Decimal(SubSeq(s, 1, Len(s) - 1)) + DigitValue[s[Len(s)]]

\* strconv.Atoi: an optional sign, then digits; an error otherwise
Atoi(s) ==
    IF s # <<>> /\ Head(s) = "-" /\ IsDigits(Tail(s)) THEN [n |-> 0 - Decimal(Tail(s)), err |-> FALSE]
    ELSE IF IsDigits(s) THEN [n |-> Decimal(s), err |-> FALSE]
    ELSE [n |-> 0, err |-> TRUE]

\* "limit := 50; if l != "" { if parsed, err := strconv.Atoi(l); err == nil &&
\* parsed > 0 && parsed <= 100 { limit = parsed } }"
ParseLimit(l) ==
    IF l # <<>> /\ ~Atoi(l).err /\ Atoi(l).n > 0 /\ Atoi(l).n <= LimitCap
      THEN Atoi(l).n
      ELSE DefaultLimit

PageInit ==
    /\ pageParam = <<>>
    /\ pageLimit = DefaultLimit

\* MessageHandler.GetChannelMessages up to the call of the store
GetMessages(l) ==
    /\ pageParam' = l
    /\ pageLimit' = ParseLimit(l)
    /\ UNCHANGED otherThanPage

PageNext == \E l \in Params : GetMessages(l)

(***************************************************************************)
(* The creation of an app's repository (GitHandler.ensureGitRepo under     *)
(* InfoRefs, syncDatabaseToGit, SyncDatabaseToGit after a code update,     *)
(* and the pushes that open the repository).                               *)
(***************************************************************************)
\* number of refs requests
NRefsReqs == 3

RefsReqs == 1..NRefsReqs

\* the code of the app: as created, as updated over REST, as pushed
Triplets == {"t0", "t1", "pushed"}

NoRepo == [exists |-> FALSE, main |-> Absent]

\* the commit syncDatabaseToGit builds from a triplet
CommitOf(triplet) == CASE triplet = "t0" -> "sync-t0" [] triplet = "t1" -> "sync-t1" [] OTHER -> "sync-pushed"

\* syncDatabaseToGit: the commit of the store's triplet on refs/heads/main, HEAD on that branch
SyncRepo(repo, triplet) == [repo EXCEPT !.main = CommitOf(triplet)]

\* an ensureGitRepo that syncs the repository it opened
AfterOpenResync(found) == IF found THEN "sync" ELSE "init"

\* ensureGitRepo after PlainOpen: the repository is returned as it is, or created
AfterOpen(found) == IF found THEN "served" ELSE "init"

SeedInit ==
    /\ repoState = NoRepo
    /\ storeTriplet = "t0"
    /\ epc = [r \in RefsReqs |-> "idle"]
    /\ efound = [r \in RefsReqs |-> FALSE]

\* InfoRefs up to git.PlainOpen of ensureGitRepo
EnsureOpen(r) ==
    /\ epc[r] = "idle"
    /\ efound' = [efound EXCEPT ![r] = repoState.exists]
    /\ epc' = [epc EXCEPT ![r] = AfterOpen(repoState.exists)]
    /\ UNCHANGED <<repoState, storeTriplet>>
    /\ UNCHANGED otherThanSeed

\* os.MkdirAll and git.PlainInit: an error when the directory cannot be made
\* or the repository is there by now
EnsureInit(r, made) ==
    /\ epc[r] = "init"
    /\ IF made /\ ~repoState.exists
         THEN /\ repoState' = [exists |-> TRUE, main |-> Absent]
              /\ epc' = [epc EXCEPT ![r] = "sync"]
         ELSE /\ epc' = [epc EXCEPT ![r] = "failed"]
              /\ UNCHANGED repoState
    /\ UNCHANGED <<storeTriplet, efound>>
    /\ UNCHANGED otherThanSeed

\* syncDatabaseToGit of ensureGitRepo: GetApp, the objects, the references
EnsureSync(r, synced) ==
    /\ epc[r] = "sync"
    /\ IF synced
         THEN /\ repoState' = SyncRepo(repoState, storeTriplet)
              /\ epc' = [epc EXCEPT ![r] = "served"]
         ELSE /\ epc' = [epc EXCEPT ![r] = "failed"]
              /\ UNCHANGED repoState
    /\ UNCHANGED <<storeTriplet, efound>>
    /\ UNCHANGED otherThanSeed

\* an accepted ReceivePack onto the main branch: PlainOpen finds the
\* repository, the branch and the store take the pushed code
PushMain ==
    /\ repoState.exists
    /\ repoState' = [repoState EXCEPT !.main = "pushed"]
    /\ storeTriplet' = "pushed"
    /\ UNCHANGED <<epc, efound>>
    /\ UNCHANGED otherThanSeed

\* a code update over REST: UpdateAppCode, then SyncDatabaseToGit, which
\* leaves a missing repository alone
UpdateCode(triplet) ==
    /\ triplet # storeTriplet
    /\ storeTriplet' = triplet
    /\ repoState' = IF repoState.exists THEN SyncRepo(repoState, triplet) ELSE repoState
    /\ UNCHANGED <<epc, efound>>
    /\ UNCHANGED otherThanSeed

SeedNext ==
    \/ \E r \in RefsReqs : EnsureOpen(r)
    \/ \E r \in RefsReqs, made \in BOOLEAN : EnsureInit(r, made)
    \/ \E r \in RefsReqs, synced \in BOOLEAN : EnsureSync(r, synced)
    \/ PushMain
    \/ \E triplet \in {"t0", "t1"} : UpdateCode(triplet)

(***************************************************************************)
(* The app-builder chat (handlers/reactions.go:619-803, 962-980): the      *)
(* callback Chat hands to StreamResponseWithTools, run once per            *)
(* function_call item of the stream, next to another writer of the same    *)
(* apps row.  A triplet is one value.                                      *)
(***************************************************************************)
\* number of function_call items one stream delivers
MaxCalls == 3

ToolNames == {"update_code", "other_tool"}
CallTriplets == {"call-a", "call-b"}
SeedTriplet == "seed"
RestTriplet == "rest"

\* an UPDATE that changes nothing
UpdateAppCodeNever(row, new, ok) == row

\* Store.UpdateAppCode as Chat uses it: the error is dropped, the row is
\* replaced when the statement succeeds
UpdateAppCodeIgnoringError(row, new, ok) == IF ok THEN new ELSE row

\* the payload broadcastCodeUpdate builds from the row GetApp returned
AppCodeUpdated(row, call) == [triplet |-> row, call |-> call]

ChatInit ==
    /\ chatStore = SeedTriplet
    /\ cpc = "idle"
    /\ cArgs = SeedTriplet
    /\ cWrote = FALSE
    /\ cRead = SeedTriplet
    /\ chatEvents = <<>>
    /\ chatCalls = 0

\* "case response.output_item.done" with a function_call item: the callback
\* runs; a call of another tool, or arguments that do not parse, end it
ToolCall(name, parsed, args) ==
    /\ cpc = "idle"
    /\ chatCalls < MaxCalls
    /\ chatCalls' = chatCalls + 1
    /\ IF name = "update_code" /\ parsed
         THEN /\ cpc' = "write"
              /\ cArgs' = args
         ELSE UNCHANGED <<cpc, cArgs>>
    /\ UNCHANGED <<chatStore, cWrote, cRead, chatEvents>>
    /\ UNCHANGED otherThanChat

\* "h.store.UpdateAppCode(appID, codeArgs.HTML, codeArgs.CSS, codeArgs.JS)"
ChatUpdateAppCode(ok) ==
    /\ cpc = "write"
    /\ chatStore' = UpdateAppCodeIgnoringError(chatStore, cArgs, ok)
    /\ cWrote' = ok
    /\ cpc' = "read"
    /\ UNCHANGED <<cArgs, cRead, chatEvents, chatCalls>>
    /\ UNCHANGED otherThanChat

\* broadcastCodeUpdate: "app, err := h.store.GetApp(appID)"; an error returns
ChatGetApp(ok) ==
    /\ cpc = "read"
    /\ IF ok
         THEN /\ cRead' = chatStore
              /\ cpc' = "send"
         ELSE /\ cpc' = "idle"
              /\ UNCHANGED cRead
    /\ UNCHANGED <<chatStore, cArgs, cWrote, chatEvents, chatCalls>>
    /\ UNCHANGED otherThanChat

\* broadcastCodeUpdate: "h.hub.BroadcastToApp(appID, ...)" with the row read
BroadcastCodeUpdate ==
    /\ cpc = "send"
    /\ chatEvents' = Append(chatEvents, AppCodeUpdated(cRead, chatCalls))
    /\ cpc' = "idle"
    /\ UNCHANGED <<chatStore, cArgs, cWrote, cRead, chatCalls>>
    /\ UNCHANGED otherThanChat

\* AppsHandler.UpdateCode of another request writes the same row
ConcurrentUpdateCode ==
    /\ chatStore # RestTriplet
    /\ chatStore' = RestTriplet
    /\ UNCHANGED <<cpc, cArgs, cWrote, cRead, chatEvents, chatCalls>>
    /\ UNCHANGED otherThanChat

ChatNext ==
    \/ \E name \in ToolNames, parsed \in BOOLEAN, args \in CallTriplets : ToolCall(name, parsed, args)
    \/ \E ok \in BOOLEAN : ChatUpdateAppCode(ok)
    \/ \E ok \in BOOLEAN : ChatGetApp(ok)
    \/ BroadcastCodeUpdate
    \/ ConcurrentUpdateCode

(***************************************************************************)
(* The two copies of an app's code under concurrent writers: code updates  *)
(* over REST or by the update_code tool (handlers/reactions.go:380-442,    *)
(* 742-748), each followed by a detached SyncDatabaseToGit, and pushes     *)
(* (GitHandler.ReceivePack).  The repository exists and has been seeded.   *)
(* A triplet is one value; the statements of the store and of the          *)
(* repository are the steps, no lock spans two of them.                    *)
(***************************************************************************)
\* number of requests in flight at once
NWriters == 2

Writers == 1..NWriters

\* a reference that keeps its value
SetReferenceNever(head, triplet) == head

\* storer.SetReference(mainRef) of syncDatabaseToGit: the branch HEAD names
\* takes the commit built from the triplet read before
SetReference(head, triplet) == triplet

SyInit ==
    /\ syStore = "t0"
    /\ syHead = "t0"
    /\ sypc = [w \in Writers |-> "idle"]
    /\ syRead = [w \in Writers |-> "t0"]

\* AppsHandler.UpdateAppCode (or the update_code call of Chat): the UPDATE
\* of the row, then "go h.gitHandler.SyncDatabaseToGit(appID)"
CodeUpdate(w, triplet) ==
    /\ sypc[w] = "idle"
    /\ syStore' = triplet
    /\ sypc' = [sypc EXCEPT ![w] = "sync"]
    /\ UNCHANGED <<syHead, syRead>>
    /\ UNCHANGED otherThanSy

\* syncDatabaseToGit: "app, err := h.store.GetApp(appID)"; an error returns
SyncGetApp(w, ok) ==
    /\ sypc[w] = "sync"
    /\ IF ok
         THEN /\ syRead' = [syRead EXCEPT ![w] = syStore]
              /\ sypc' = [sypc EXCEPT ![w] = "read"]
         ELSE /\ sypc' = [sypc EXCEPT ![w] = "idle"]
              /\ UNCHANGED syRead
    /\ UNCHANGED <<syStore, syHead>>
    /\ UNCHANGED otherThanSy

\* syncDatabaseToGit: blobs, tree and commit of the triplet read, then
\* SetReference of refs/heads/main and HEAD; an error returns
SyncSetReference(w, ok) ==
    /\ sypc[w] = "read"
    /\ syHead' = IF ok THEN SetReference(syHead, syRead[w]) ELSE syHead
    /\ sypc' = [sypc EXCEPT ![w] = "idle"]
    /\ UNCHANGED <<syStore, syRead>>
    /\ UNCHANGED otherThanSy

\* ReceivePack up to the end of its updateRef loop: the main branch is on the pushed commit
PushUpdateRef(w) ==
    /\ sypc[w] = "idle"
    /\ syHead' = "pushed"
    /\ sypc' = [sypc EXCEPT ![w] = "pushed"]
    /\ UNCHANGED <<syStore, syRead>>
    /\ UNCHANGED otherThanSy

\* ReceivePack: syncGitToDatabase stores the files of the commit repo.Head()
\* resolves to now; an error of the UPDATE answers the push with a failure
PushSyncGitToDatabase(w, ok) ==
    /\ sypc[w] = "pushed"
    /\ syStore' = IF ok THEN syHead ELSE syStore
    /\ sypc' = [sypc EXCEPT ![w] = "idle"]
    /\ UNCHANGED <<syHead, syRead>>
    /\ UNCHANGED otherThanSy

SyNext ==
    \/ \E w \in Writers, triplet \in {"t0", "t1"} : CodeUpdate(w, triplet)
    \/ \E w \in Writers, ok \in BOOLEAN : SyncGetApp(w, ok)
    \/ \E w \in Writers, ok \in BOOLEAN : SyncSetReference(w, ok)
    \/ \E w \in Writers : PushUpdateRef(w)
    \/ \E w \in Writers, ok \in BOOLEAN : PushSyncGitToDatabase(w, ok)

(***************************************************************************)
(* The per-app stores (AppsHandler.getAppDB and closeAppDB).  Every access *)
(* to AppsHandler.appDBs is made under appDBsMu, so the read under RLock   *)
(* and the body under Lock are one step each.                              *)
(***************************************************************************)
\* number of concurrent callers of getAppDB
NCallers == 3
\* number of times closeAppDB finds an entry
MaxCloses == 1

Callers == 1..NCallers

AppIds == {"a1", "a2"}

NoHandle == 0

\* the call has not begun
NoCall == [pc |-> "idle", app |-> "a1", got |-> NoHandle, how |-> "", era |-> 0]

\* how the slow path of getAppDB ends: the handle is opened, or
\* ensureAppDataDir or sql.Open returns an error
OpenOutcomes == {"ok", "mkdir fails", "open fails"}

\* a slow path that does not look at the map again
RecheckSkipped(table, app) == NoHandle

\* "if db, exists := h.appDBs[appID]; exists" under the write lock
Recheck(table, app) == table[app]

DBInit ==
    /\ appDBs = [a \in AppIds |-> NoHandle]
    /\ dbCalls = [k \in Callers |-> NoCall]
    /\ dbOpened = {}
    /\ dbCloses = [a \in AppIds |-> 0]

\* getAppDB up to RUnlock: the read of the map under the read lock, and the
\* return of the cached handle
GetAppDBRead(k, app) ==
    /\ dbCalls[k].pc \in {"idle", "done"}
    /\ dbCalls' = [dbCalls EXCEPT ![k] =
                      IF appDBs[app] # NoHandle
                        THEN [pc |-> "done", app |-> app, got |-> appDBs[app], how |-> "cached",
                              era |-> dbCloses[app]]
                        ELSE [pc |-> "miss", app |-> app, got |-> NoHandle, how |-> "",
                              era |-> 0]]
    /\ UNCHANGED <<appDBs, dbOpened, dbCloses>>
    /\ UNCHANGED otherThanDB

\* getAppDB from Lock to the deferred Unlock: the second look at the map,
\* ensureAppDataDir, sql.Open and the new entry
GetAppDBOpen(k, outcome) ==
    /\ dbCalls[k].pc = "miss"
    /\ LET app == dbCalls[k].app
           found == Recheck(appDBs, app)
           db == Cardinality(dbOpened) + 1
       IN IF found # NoHandle
            THEN /\ dbCalls' = [dbCalls EXCEPT ![k] =
                                   [pc |-> "done", app |-> app, got |-> found, how |-> "rechecked",
                                    era |-> dbCloses[app]]]
                 /\ UNCHANGED <<appDBs, dbOpened>>
            ELSE IF outcome # "ok"
            THEN /\ dbCalls' = [dbCalls EXCEPT ![k] =
                                   [pc |-> "done", app |-> app, got |-> NoHandle, how |-> outcome,
                                    era |-> dbCloses[app]]]
                 /\ UNCHANGED <<appDBs, dbOpened>>
            ELSE /\ appDBs' = [appDBs EXCEPT ![app] = db]
                 /\ dbOpened' = dbOpened \cup {[db |-> db, app |-> app, era |-> dbCloses[app]]}
                 /\ dbCalls' = [dbCalls EXCEPT ![k] =
                                   [pc |-> "done", app |-> app, got |-> db, how |-> "opened",
                                    era |-> dbCloses[app]]]
    /\ UNCHANGED dbCloses
    /\ UNCHANGED otherThanDB

\* closeAppDB: db.Close() and delete(h.appDBs, appID) under the write lock
CloseAppDB(app) ==
    /\ IF appDBs[app] # NoHandle
         THEN /\ dbCloses[app] < MaxCloses
              /\ appDBs' = [appDBs EXCEPT ![app] = NoHandle]
              /\ dbCloses' = [dbCloses EXCEPT ![app] = @ + 1]
         ELSE UNCHANGED <<appDBs, dbCloses>>
    /\ UNCHANGED <<dbCalls, dbOpened>>
    /\ UNCHANGED otherThanDB

DBNext ==
    \/ \E k \in Callers, app \in AppIds : GetAppDBRead(k, app)
    \/ \E k \in Callers, outcome \in OpenOutcomes : GetAppDBOpen(k, outcome)
    \/ \E app \in AppIds : CloseAppDB(app)

(***************************************************************************)
(* The pack of an upload-pack request (GitHandler.generatePackfile and     *)
(* collectObjectsForPack) over a repository of two commits and a tag.      *)
(***************************************************************************)
\* an object of the repository: its type and the hashes it names
Obj(type, names) == [type |-> type, names |-> names]

\* the object store: commit k2 follows k1, their trees share a blob, and
\* the annotated tag v1 names k2
ObjectStore ==
    [h \in {"k1", "k2", "t1", "t2", "b1", "b2", "v1"} |->
        CASE h = "k1" -> Obj("commit", {"t1"})
          [] h = "k2" -> Obj("commit", {"t2", "k1"})
          [] h = "t1" -> Obj("tree", {"b1"})
          [] h = "t2" -> Obj("tree", {"b1", "b2"})
          [] h = "v1" -> Obj("tag", {"k2"})
          [] OTHER -> Obj("blob", {})]

\* commit.TreeHash and commit.ParentHashes
TreeHash(h) == CHOOSE t \in ObjectStore[h].names : ObjectStore[t].type = "tree"
ParentHashes(h) == {p \in ObjectStore[h].names : p \in DOMAIN ObjectStore => ObjectStore[p].type = "commit"}

\* the hashes a request can ask for: those of the store and one it lacks
WantHashes == DOMAIN ObjectStore \cup {"zz"}

NoPack == [err |-> FALSE, count |-> 0, written |-> <<>>]

RECURSIVE CollectObjectsForPack(_, _)
RECURSIVE CollectEach(_, _, _)

\* collectObjectsForPack for each hash of hs in turn; a failed call ends the
\* loop unless its error is discarded
CollectEach(hs, objects, discard) ==
    IF hs = {} THEN [err |-> FALSE, objects |-> objects]
    ELSE LET h == CHOOSE x \in hs : TRUE
             one == CollectObjectsForPack(h, objects)
         IN IF one.err /\ ~discard THEN one
            ELSE CollectEach(hs \ {h}, one.objects, discard)

\* collectObjectsForPack: the object is added to the map, then the tree and
\* the parents of a commit and the entries of a tree are collected; the
\* error of a parent is discarded, an object of another type names nothing
CollectObjectsForPack(hash, objects) ==
    IF hash \in objects THEN [err |-> FALSE, objects |-> objects]
    ELSE IF hash \notin DOMAIN ObjectStore THEN [err |-> TRUE, objects |-> objects]
    ELSE LET with == objects \cup {hash}
         IN CASE ObjectStore[hash].type = "commit" ->
                   LET tree == CollectObjectsForPack(TreeHash(hash), with)
                   IN IF tree.err THEN tree
                      ELSE [err |-> FALSE,
                            objects |-> CollectEach(ParentHashes(hash), tree.objects, TRUE).objects]
              [] ObjectStore[hash].type = "tree" ->
                   CollectEach(ObjectStore[hash].names, with, FALSE)
              [] OTHER -> [err |-> FALSE, objects |-> with]

\* generatePackfile: the map of the collected objects, the header with
\* len(objects), and one write for every entry of the map
GeneratePackfile(wants) ==
    LET collected == CollectEach(wants, {}, FALSE)
    IN IF collected.err THEN [err |-> TRUE, count |-> 0, written |-> <<>>]
       ELSE [err |-> FALSE,
             count |-> Cardinality(collected.objects),
             written |-> [h \in collected.objects |-> 1]]

PackInit ==
    /\ packWants = {}
    /\ packOut = NoPack

\* the requests: any set of wanted hashes
PackInputs ==
    /\ packWants \in SUBSET WantHashes
    /\ packOut = NoPack

\* UploadPack with at least one want: the call of generatePackfile
UploadPackGenerate ==
    /\ packWants # {}
    /\ packOut = NoPack
    /\ packOut' = GeneratePackfile(packWants)
    /\ UNCHANGED packWants
    /\ UNCHANGED otherThanPack

PackNext == UploadPackGenerate

(***************************************************************************)
(* The commands of a receive-pack request                                  *)
(* (GitHandler.parseReceivePackCommands).  A body is a sequence of         *)
(* characters; the packets below are the pieces the bodies are made of.    *)
(***************************************************************************)
\* number of packets of a body
MaxPkts == 3

\* the value of a hexadecimal digit
HexValue(ch) ==
    CASE ch = "0" -> 0 [] ch = "1" -> 1 [] ch = "2" -> 2 [] ch = "3" -> 3
      [] ch = "4" -> 4 [] ch = "5" -> 5 [] ch = "6" -> 6 [] ch = "7" -> 7
      [] ch = "8" -> 8 [] ch = "9" -> 9 [] ch = "a" -> 10 [] ch = "b" -> 11
      [] ch = "c" -> 12 [] ch = "d" -> 13 [] ch = "e" -> 14 [] ch = "f" -> 15

IsHex(ch) == ch \in {"0", "1", "2", "3", "4", "5", "6", "7", "8", "9", "a", "b", "c", "d", "e", "f"}

RECURSIVE ScanHex(_, _)
\* the hexadecimal digits at the start of the text, read into the value acc
ScanHex(text, acc) ==
    IF text # <<>> /\ IsHex(Head(text))
      THEN ScanHex(Tail(text), acc * 16 + HexValue(Head(text)))
      ELSE acc

\* fmt.Sscanf(lenStr, "%04x", &pktLen) with pktLen zero before the call: the
\* digits read, and zero when the text starts with no digit
Sscanf04x(lenStr) == ScanHex(lenStr, 0)

\* line[:idx] for the first NUL of the line
RECURSIVE UpToNul(_)
UpToNul(line) ==
    IF line = <<>> \/ Head(line) = "NUL" THEN <<>> ELSE <<Head(line)>> \o UpToNul(Tail(line))

RECURSIVE FieldsFrom(_, _, _)
\* strings.Fields: the runs of characters between white space
FieldsFrom(text, cur, acc) ==
    IF text = <<>> THEN (IF cur = <<>> THEN acc ELSE Append(acc, cur))
    ELSE IF IsSpace(Head(text))
      THEN FieldsFrom(Tail(text), <<>>, IF cur = <<>> THEN acc ELSE Append(acc, cur))
      ELSE FieldsFrom(Tail(text), Append(cur, Head(text)), acc)

Fields(text) == FieldsFrom(text, <<>>, <<>>)

\* "0009o n r": a command line
CmdPkt(ref) == <<"0", "0", "0", "9", "o", " ", "n", " ", ref>>
\* "000bo n r\0c": a command line with capabilities after a NUL
CapsPkt(ref) == <<"0", "0", "0", "b", "o", " ", "n", " ", ref, "NUL", "c">>
\* "0000": the flush packet
FlushPkt == <<"0", "0", "0", "0">>
\* "0004": a packet of no content
EmptyPkt == <<"0", "0", "0", "4">>
\* "0001": a length smaller than the length prefix itself
ShortPkt == <<"0", "0", "0", "1">>
\* "zzzz": a length prefix that is no hexadecimal number
BadHexPkt == <<"z", "z", "z", "z">>
\* "00ff": a length that points beyond the end of the body
LongPkt == <<"0", "0", "f", "f">>
\* "PACK": the start of the pack data
PackPkt == <<"P", "A", "C", "K">>

Pkts == {CapsPkt("r"), CmdPkt("s"), FlushPkt, EmptyPkt, ShortPkt, BadHexPkt, LongPkt, PackPkt}

\* the request bodies: up to MaxPkts packets
BodyPkts == UNION {[1..n -> Pkts] : n \in 0..MaxPkts}

RECURSIVE Bytes(_)
\* the body as the handler reads it
Bytes(pkts) == IF pkts = <<>> THEN <<>> ELSE Head(pkts) \o Bytes(Tail(pkts))

NoParse == [panic |-> FALSE, commands |-> <<>>, pos |-> -1]

RECURSIVE ParseFrom(_, _, _)
\* the loop of parseReceivePackCommands from position pos (counted from 0)
ParseFrom(data, pos, commands) ==
    LET stop == [panic |-> FALSE, commands |-> commands, pos |-> pos]
    IN IF ~(pos < Len(data)) \/ pos + 4 > Len(data) THEN stop
       ELSE LET pktLen == Sscanf04x(SubSeq(data, pos + 1, pos + 4))
            IN IF pktLen = 0 THEN [stop EXCEPT !.pos = pos + 4]
               ELSE IF pos + pktLen > Len(data) THEN stop
               \* data[pos+4 : pos+pktLen] with pos+4 > pos+pktLen: slice bounds out of range
               ELSE IF pktLen < 4 THEN [stop EXCEPT !.panic = TRUE]
               ELSE LET line == UpToNul(TrimSpace(SubSeq(data, pos + 5, pos + pktLen)))
                        parts == Fields(line)
                    IN ParseFrom(data, pos + pktLen,
                                 IF Len(parts) >= 3
                                   THEN Append(commands, [Old |-> parts[1], New |-> parts[2],
                                                          RefName |-> parts[3]])
                                   ELSE commands)

ParseReceivePackCommands(data) == ParseFrom(data, 0, <<>>)

ParseInit ==
    /\ parseBody = <<>>
    /\ parseOut = NoParse

\* the requests: any body
ParseInputs ==
    /\ parseBody \in BodyPkts
    /\ parseOut = NoParse

\* ReceivePack up to the return of parseReceivePackCommands
ReceivePackParse ==
    /\ parseOut = NoParse
    /\ parseOut' = ParseReceivePackCommands(Bytes(parseBody))
    /\ UNCHANGED parseBody
    /\ UNCHANGED otherThanParse

ParseNext == ReceivePackParse

(***************************************************************************)
(* The specifications.                                                     *)
(***************************************************************************)
vars == <<hubVars, aiVars, gitVars, remVars, dmVars, delVars, sendVars, ctxVars, memVars, hookVars, thrVars, pageVars, seedVars, chatVars, syVars, dbVars, packVars, parseVars>>

Init == HubInit /\ AIInit /\ GitInit /\ RemInit /\ DMInit /\ DelInit /\ SendInit /\ CtxInit /\ MemInit /\ HookInit /\ ThrInit /\ PageInit /\ SeedInit /\ ChatInit /\ SyInit /\ DBInit /\ PackInit /\ ParseInit

SpecHub == Init /\ [][HubNext]_vars

\* every connection registered, the other subsystems as constructed
InitFan == FanInit /\ AIInit /\ GitInit /\ RemInit /\ DMInit /\ DelInit /\ SendInit /\ CtxInit /\ MemInit /\ HookInit /\ ThrInit /\ PageInit /\ SeedInit /\ ChatInit /\ SyInit /\ DBInit /\ PackInit /\ ParseInit

SpecFan == InitFan /\ [][FanNext]_vars

SpecAI == Init /\ [][AINext]_vars

SpecGit == Init /\ [][GitNext]_vars

SpecGitAuth == Init /\ [][GitAuthNext]_vars

SpecRem == Init /\ [][RemNext]_vars

SpecDM == Init /\ [][DMNext]_vars

InitDel == HubInit /\ AIInit /\ GitInit /\ RemInit /\ DMInit /\ DelInitAnyBuild /\ SendInit /\ CtxInit /\ MemInit /\ HookInit /\ ThrInit /\ PageInit /\ SeedInit /\ ChatInit /\ SyInit /\ DBInit /\ PackInit /\ ParseInit

SpecDel == InitDel /\ [][DelNext]_vars

SpecSend == Init /\ [][SendNext]_vars

SpecCtx == Init /\ [][CtxNext]_vars

SpecMem == Init /\ [][MemNext]_vars

SpecHook == InitDel /\ [][HookNext]_vars

SpecThr == InitDel /\ [][ThrNext]_vars

SpecPage == Init /\ [][PageNext]_vars

SpecSeed == Init /\ [][SeedNext]_vars

\* the Go scheduler runs every runnable goroutine: the coordinator, the
\* goroutines inside a fan-out operation and those of "go h.BroadcastAll"
LiveFairness ==
    /\ WF_vars(Coordinator)
    /\ \A t \in Tasks : WF_vars(TaskStep(t))
    /\ WF_vars(\E p \in pendingBA : BroadcastAll(p))


InitLive == LiveInit /\ AIInit /\ GitInit /\ RemInit /\ DMInit /\ DelInit /\ SendInit /\ CtxInit /\ MemInit /\ HookInit /\ ThrInit /\ PageInit /\ SeedInit /\ ChatInit /\ SyInit /\ DBInit /\ PackInit /\ ParseInit

SpecLive == InitLive /\ [][LiveNext]_vars /\ LiveFairness

SpecChat == Init /\ [][ChatNext]_vars

SpecSy == Init /\ [][SyNext]_vars

SpecDB == Init /\ [][DBNext]_vars

InitPack == HubInit /\ AIInit /\ GitInit /\ RemInit /\ DMInit /\ DelInit /\ SendInit /\ CtxInit /\ MemInit /\ HookInit /\ ThrInit /\ PageInit /\ SeedInit /\ ChatInit /\ SyInit /\ DBInit /\ PackInputs /\ ParseInit

SpecPack == InitPack /\ [][PackNext]_vars

InitParse == HubInit /\ AIInit /\ GitInit /\ RemInit /\ DMInit /\ DelInit /\ SendInit /\ CtxInit /\ MemInit /\ HookInit /\ ThrInit /\ PageInit /\ SeedInit /\ ChatInit /\ SyInit /\ DBInit /\ PackInit /\ ParseInputs

SpecParse == InitParse /\ [][ParseNext]_vars

(***************************************************************************)
(* Properties of the hub.                                                  *)
(***************************************************************************)
\* number of frames of the event with the given id in a sequence of frames
FramesOf(id, frames) == Cardinality({i \in 1..Len(frames) : frames[i].payload.id = id})

IsPrefix(a, b) == Len(a) <= Len(b) /\ \A i \in 1..Len(a) : a[i] = b[i]

\* a fan-out operation of task t has finished its range loop and not yet unlocked
PassDone(t) == tpc[t] = "fan" /\ ttodo[t] = {} /\ ~crashed

\* the presence events of the given type about user u that a step hands to BroadcastAll goroutines
Emitted(type, u) ==
    Cardinality({p \in pendingBA' \ pendingBA : p.frame = Marshal(PresenceMsg(type, u))})

\* C1: a user_online event is emitted exactly once when a user's number of
\* registered connections goes from 0 to a positive number, a user_offline
\* event exactly once when it goes from a positive number to 0, and no
\* presence event is emitted by any other step.
C1_PresenceOncePerTransition ==
    [][\A u \in Users :
          LET before == ConnCount(clients, u)
              after == Cardinality({c \in clients' : owner'[c] = u})
          IN /\ Emitted("user_online", u) = IF before = 0 /\ after > 0 THEN 1 ELSE 0
             /\ Emitted("user_offline", u) = IF before > 0 /\ after = 0 THEN 1 ELSE 0]_vars

\* the iteration of a range loop is never disabled: the enqueue does not wait for room
ProducerNeverBlocks ==
    /\ \A t \in Tasks : tpc[t] = "fan" /\ ~crashed =>
          \A c \in ttodo[t] : ENABLED (\E produced, race \in BOOLEAN : FanStep(t, c, produced, race))
    /\ hubpc = "bfan" /\ ~crashed =>
          \A c \in hubTodo : ENABLED (\E produced \in BOOLEAN : HubBroadcastStep(c, produced))

\* a step in which some fan-out operation begins its range loop
FanOutBegins ==
    \/ \E t \in Tasks : tpc[t] = "idle" /\ tpc'[t] = "fan"
    \/ hubpc = "select" /\ hubpc' = "bfan"

\* C2 as stated: a connection on which any fan-out operation found the queue
\* full is out of the registry when the next fan-out begins, and no producer
\* waits for room in a queue.
C2_RemovedBeforeNextFanOut ==
    /\ [][FanOutBegins => fullSeen \cap clients = {}]_vars
    /\ []ProducerNeverBlocks

\* a step of the fan-out operation of task t
StepOf(t) == tpc'[t] # tpc[t] \/ ttodo'[t] # ttodo[t]

\* C2: a connection that BroadcastToChannel, BroadcastToApp, SendToUser or
\* the coordinator's broadcast case found full is out of the registry when
\* that operation returns; BroadcastToChannelExcept only skips it and removes
\* nothing; no producer waits for room in a queue.
C2_RemovedWhenOperationReturns ==
    /\ [][\A t \in Tasks :
            /\ (tpc[t] # "idle" /\ tpc'[t] = "idle" /\ tkind[t] # "except")
                  => tfull[t] \cap clients' = {}
            /\ (tpc[t] # "idle" /\ tkind[t] = "except" /\ StepOf(t))
                  => clients' = clients /\ closed' = closed]_vars
    /\ [][(hubpc # "select" /\ hubpc' = "select") => hubStale \cap clients' = {}]_vars
    /\ []ProducerNeverBlocks

\* every operation has returned, and a connection found full is closed and out of the registry
C2_EvictedAfterReturn ==
    /\ \A t \in Tasks : tpc[t] = "idle"
    /\ hubpc = "select"
    /\ ~crashed
    /\ \E c \in fullSeen : c \notin clients /\ closed[c]

\* C9 as stated: when BroadcastToChannel has gone through the registry with a
\* new_message event, every registered client has exactly one frame of the
\* event on its queue, and the frame's type is new_message.
C9_OneFrameForEveryClient ==
    \A t \in Tasks :
        (PassDone(t) /\ tkind[t] = "chan" /\ targ[t].type = "new_message") =>
            \A c \in tsnap[t] \cap clients :
                /\ FramesOf(tmsg[t].payload.id, pushed[c]) = 1
                /\ tmsg[t].type = "new_message"

\* C9: when BroadcastToChannel has gone through the registry with a
\* new_message event, every registered client whose queue had room,
\* subscribed to the channel or not, has exactly one frame of the event, of
\* type new_message; a client whose queue was full has none and is marked
\* for removal.
C9_OneFrameUnlessFull ==
    \A t \in Tasks :
        (PassDone(t) /\ tkind[t] = "chan" /\ targ[t].type = "new_message") =>
            \A c \in tsnap[t] \cap clients :
                IF c \in tfull[t]
                  THEN FramesOf(tmsg[t].payload.id, pushed[c]) = 0 /\ c \in tstale[t]
                  ELSE /\ FramesOf(tmsg[t].payload.id, pushed[c]) = 1
                       /\ \A i \in 1..Len(pushed[c]) :
                             pushed[c][i].payload.id = tmsg[t].payload.id
                                 => pushed[c][i].type = "new_message"

\* a new_message pass is over: a client not subscribed to the channel has
\* its frame and a client with a full queue has none
C9_UnsubscribedServedFullSkipped ==
    \E t \in Tasks :
        /\ PassDone(t) /\ tkind[t] = "chan" /\ targ[t].type = "new_message"
        /\ \E c \in (tsnap[t] \cap clients) \ tfull[t] :
              ~chSub[c] /\ FramesOf(tmsg[t].payload.id, pushed[c]) = 1
        /\ tfull[t] # {}

\* the events of one producer appear in a sequence of frames in the order of their ids
InBroadcastOrder(frames) ==
    \A i, j \in 1..Len(frames) :
        (i < j /\ frames[i].payload.id > 0 /\ frames[i].payload.by = frames[j].payload.by)
            => frames[i].payload.id < frames[j].payload.id

\* C10: what writePump has written is a prefix of what was enqueued on the
\* connection (same order, nothing skipped); while the pump runs, what was
\* enqueued is what is written followed by what is queued; the events of a
\* producer are enqueued in the order of its calls; and a pass that finds
\* some queue full still delivers the event to every other client it selects
\* (for BroadcastToApp the selection depends on the subscription at the moment
\* of the visit, so that operation is left out of the last part).
C10_WrittenInEnqueueOrder ==
    /\ \A c \in Conns :
          /\ IsPrefix(written[c], pushed[c])
          /\ wp[c] = "run" => pushed[c] = written[c] \o send[c]
          /\ InBroadcastOrder(pushed[c])
    /\ \A t \in Tasks : (PassDone(t) /\ tfull[t] # {} /\ tkind[t] # "app") =>
          \A c \in (tsnap[t] \cap clients) \ tfull[t] :
              Selected(t, c) => FramesOf(tmsg[t].payload.id, pushed[c]) = 1

\* a connection has been written both events in order while another was evicted
C10_BothWrittenDuringEviction ==
    \E c, k \in Conns :
        /\ c # k
        /\ k \in fullSeen /\ k \notin clients
        /\ \E i, j \in 1..Len(written[c]) :
              i < j /\ written[c][i].payload.id = 1 /\ written[c][j].payload.id = 2

(***************************************************************************)
(* Properties of the AI mediator.                                          *)
(***************************************************************************)
IsDelta(event) == event.type = "message_stream_delta"

\* the texts of the delta events of a log, in order
DeltaTexts(log) == [i \in 1..Len(SelectSeq(log, IsDelta)) |-> SelectSeq(log, IsDelta)[i].text]

\* the indices of the events of a type in the log of the run
EventsOf(type) == {i \in 1..Len(aiLog) : aiLog[i].type = type}

\* a placeholder exists for the run
RunStarted == aiPc \notin {"idle"}

\* the run that created a placeholder has returned
RunOver == aiPc = "done"

\* C3: the events handed to the hub for the placeholder of a run are one
\* stream-start, then the deltas in the order the upstream produced them,
\* then one stream-end; a new_message comes only right after the stream-end,
\* as the last event.
C3_StreamEventOrder ==
    /\ \A i \in 1..Len(aiLog) : aiLog[i].message_id = aiMsg
    /\ RunStarted => EventsOf("message_stream_start") = {1}
    /\ DeltaTexts(aiLog) = aiUp
    /\ Cardinality(EventsOf("message_stream_end")) <= 1
    /\ RunOver => Cardinality(EventsOf("message_stream_end")) = 1
    /\ \A i \in EventsOf("message_stream_end") : \A j \in EventsOf("message_stream_delta") : j < i
    /\ \A i \in EventsOf("new_message") :
          i = Len(aiLog) /\ i - 1 \in EventsOf("message_stream_end")

\* a run with two deltas has handed over stream-end and new_message
C3_FullRunLogged ==
    /\ RunOver
    /\ Len(aiUp) >= 2
    /\ EventsOf("new_message") # {}

\* the run took the pass path
PassedRun == IsPassRun(aiMode, aiFinal)

\* C4: when a run that emitted stream-start is over, whatever the upstream
\* call did, a stream-end has been emitted and (unless the run passed) the
\* stored row holds the final text or the apology and is not empty.
C4_PlaceholderFinalized ==
    RunOver =>
        /\ Cardinality(EventsOf("message_stream_end")) = 1
        /\ ~PassedRun =>
              /\ aiRow.present
              /\ aiRow.content = aiFinal
              /\ aiRow.content # <<>>

\* a text that is "pass" up to the case of its letters and surrounding white space
LooksLikePass(text) ==
    \E i, j \in 0..Len(text) :
        /\ i + 4 + j = Len(text)
        /\ \A k \in 1..i : IsSpace(text[k])
        /\ \A k \in (i + 5)..Len(text) : IsSpace(text[k])
        /\ text[i + 1] \in {"p", "P"}
        /\ text[i + 2] \in {"a", "A"}
        /\ text[i + 3] \in {"s", "S"}
        /\ text[i + 4] \in {"s", "S"}

\* a follow-up run whose finalized text is a pass is over
PassRunOver == RunOver /\ aiMode = "followup" /\ LooksLikePass(aiFinal)

OtherRunOver == RunOver /\ ~(aiMode = "followup" /\ LooksLikePass(aiFinal))

Accepted == gitReply.status = "unpack ok"

DueSince(r) == IF r.RemindAt > r.CreatedAt THEN r.RemindAt ELSE r.CreatedAt

\* a message of smackbot that starts with the bell and ends with the text
IsReminderOf(m, text) ==
    /\ m.author = Smackbot
    /\ Len(m.content) > Len(text)
    /\ m.content[1] = "bell"
    /\ SubSeq(m.content, Len(m.content) - Len(text) + 1, Len(m.content)) = text

\* the reminder's message is in the user's direct channel with smackbot, the
\* reminder is marked completed and its event went to the user
Delivered(id) ==
    LET r == reminders[id]
    IN /\ \E i \in DOMAIN dmMsgs[r.UserID] : IsReminderOf(dmMsgs[r.UserID][i], r.Message)
       /\ r.Completed
       /\ \E e \in hubOut : e.type = "reminder" /\ e.to = r.UserID /\ e.payload = r.Message

C11_OneDirectChannel ==
    \A a, b \in Users : a # b =>
        /\ Cardinality(DirectChannels(channels, a, b)) <= 1
        /\ \A r, q \in Openers :
              (opc[r] = "done" /\ opc[q] = "done" /\ oret[r] # 0 /\ oret[q] # 0
               /\ {ofrom[r], oto[r]} = {a, b} /\ {ofrom[q], oto[q]} = {a, b})
                  => oret[r] = oret[q]

(***************************************************************************)
(* Properties of the delete-message endpoint.                              *)
(***************************************************************************)
\* C12 as stated: in every state a reader can see, the message a delete is
\* to remove, its replies and the reactions on it are all there or all gone.
C12_DeletedInOneScope ==
    LET left == (doomedRows \cap Present(rows)) \cup (doomedReacts \cap reacts)
    IN left = {} \/ (doomedRows \subseteq Present(rows) /\ doomedReacts \subseteq reacts)

\* C13: a refs advertisement or an upload-pack is served only to a user who
\* has a row in the app's members, and a receive-pack request changes the
\* objects, the references or the stored code only when the role of its user
\* is owner or admin.
C13_ServedToMembersPushedByAdmins ==
    [][/\ (gitRead' # gitRead /\ gitRead'.served) => appMembers[gitUser'] # NoRole
       /\ (gitPushes' # gitPushes /\ <<gitObjects, gitRefs, appCode>>' # <<gitObjects, gitRefs, appCode>>)
             => appMembers[gitUser'] \in {"owner", "admin"}]_vars

\* a plain member was served a read after a push of theirs was turned away with
\* 403, the repository being as an administrator's accepted push left it
C13_MemberReadsButCannotPush ==
    /\ gitRead.served
    /\ appMembers[gitUser] = "member"
    /\ gitReply.status = "403"
    /\ gitRefs["refs/heads/main"] # Seed

\* C14: the status reply of a receive-pack request is either the line
\* "unpack ok", one "ok <ref-name>" line per received command in command
\* order and a flush, sent only when every named reference was set to a new
\* hash of the request and the stored code is the code of the tree of HEAD, or
\* else one "unpack <msg>" line and a flush; no reply mixes the two.
C14_StatusReplyForms ==
    gitReply.lines # <<>> =>
        \/ /\ gitReply.lines = <<UnpackLine("ok")>> \o [i \in 1..Len(gitNames) |-> OkLine(gitNames[i])]
                                  \o <<Flush>>
           /\ gitNames # <<>>
           /\ \A i \in 1..Len(gitNames) : gitRefs[gitNames[i]] \in gitNew
           /\ HeadReadable(gitRefs, gitObjects)
           /\ appCode = ExtractFiles(TreeOf(RepoHead(gitRefs)))
        \/ /\ Len(gitReply.lines) = 2
           /\ gitReply.lines[1][1] = "unpack"
           /\ gitReply.lines[1][2] # "ok"
           /\ gitReply.lines[2] = Flush

\* a push of two commands was accepted and answered with the line of the dev
\* branch before the line of the main branch, after a push that was answered
\* with the error form and had set its reference
C14_TwoRefsAnsweredInOrder ==
    /\ gitReply.lines = <<UnpackLine("ok"), OkLine("refs/heads/dev"), OkLine("refs/heads/main"), Flush>>
    /\ gitPushes = 2
    /\ gitRefs["HEAD"] # Absent

(***************************************************************************)
(* Properties of the dispatch of send-message.                             *)
(***************************************************************************)
\* the request created a message row
Posted(req) == req.content # <<>> /\ req.outcome # "create fails"

\* the bots the content of the request mentions
MentionedIn(req) == {i \in 1..Len(Bots) : Mentions(Bots[i], req.content)}

\* the recorded response in the channel of the request is at most a minute old
RecentResponse(req) ==
    /\ lastBotResponse[req.channel].bot # NoBot
    /\ clock - lastBotResponse[req.channel].timestamp <= Minute

KeptOldestFirst ==
    LET kept == SelectSeq(ctxFetched, LAMBDA msg : msg.content # ctxText)
    IN [i \in 1..Len(kept) |->
          NewTextMessage(IF kept[i].user = "bot" THEN "assistant" ELSE "user", kept[i].content)]

\* C16: the context of a run lists the fetched prior messages of the channel
\* oldest first and ends with the user text.
C16_ContextOldestFirst ==
    ctxRuns > 0 => ctxSent = Append(KeptOldestFirst, NewTextMessage("user", ctxText))

(***************************************************************************)
(* Properties of the remove-member endpoints.                              *)
(***************************************************************************)
\* the table of the request that the step served, before and after the step
MembersBefore == IF memReq'.table = "app" THEN appMembers ELSE boardMembers
MembersAfter == IF memReq'.table = "app" THEN appMembers' ELSE boardMembers'

C18_AuthorsAreUsers == msgAuthors \subseteq UserIdsOf(userRows)

(***************************************************************************)
(* Properties of the channel of a message and of its parent.               *)
(***************************************************************************)
\* C19: every stored message that has a parent message is in the channel of
\* its parent, whether send-message or reply created it.
C19_ReplyInChannelOfParent ==
    \A id \in MsgIds :
        (threadRows[id] # NoMsg /\ threadRows[id].thread # 0 /\ threadRows[threadRows[id].thread] # NoMsg)
            => threadRows[id].channel = threadRows[threadRows[id].thread].channel

(***************************************************************************)
(* Properties of the limit of a request for a channel's messages.          *)
(***************************************************************************)
\* C20: a requested limit above 100 is served with the limit 100, and a
\* requested limit of 0 or less with the limit 50.
C20_LimitClampedOrDefaulted ==
    ~Atoi(pageParam).err =>
        /\ Atoi(pageParam).n > LimitCap => pageLimit = LimitCap
        /\ Atoi(pageParam).n <= 0 => pageLimit = DefaultLimit

\* C21: a push whose pack holds a delta object is answered with the unpack
\* failure "delta objects not supported"; it sets no reference and does not
\* write the code of the app in the store.
C21_DeltaPushAborted ==
    [][(gitPushes' # gitPushes /\ gitDelta') =>
          /\ gitReply'.lines = <<UnpackLine(DeltaUnsupported), Flush>>
          /\ gitRefs' = gitRefs
          /\ appCode' = appCode]_vars

\* a push of a commit onto the main branch with a delta object in its pack
\* was refused: the commit is among the objects, the branch is where it was
C21_DeltaPushLeftBranch ==
    /\ gitDelta
    /\ gitNames = <<"refs/heads/main">>
    /\ gitNew \subseteq gitObjects
    /\ gitNew \cap Pushed # {}
    /\ gitRefs["refs/heads/main"] = Seed
    /\ gitReply.lines = <<UnpackLine(DeltaUnsupported), Flush>>

(***************************************************************************)
(* Properties of the creation of an app's repository.                      *)
(***************************************************************************)
\* C22: a refs request writes the repository from the store only when its
\* PlainOpen found no repository and it created one; a request that opened
\* an existing repository leaves it as it is.
C22_SeededOnlyByCreator ==
    [][\A r \in RefsReqs :
          (epc'[r] # epc[r] /\ repoState' # repoState) =>
              /\ ~efound'[r]
              /\ epc[r] \in {"init", "sync"}
              /\ (epc[r] = "init" => ~repoState.exists)]_vars

\* the first request created and seeded the repository, a push moved the
\* main branch, and a later request was served the repository as the push
\* left it
C22_LaterRequestServedPushed ==
    /\ epc[1] = "served" /\ ~efound[1]
    /\ epc[2] = "served" /\ efound[2]
    /\ repoState.main = "pushed"

(***************************************************************************)
(* Properties of the hub under fair scheduling.                            *)
(***************************************************************************)
\* connection c is waiting in the queue q
InQueue(q, c) == \E i \in 1..Len(q) : q[i] = c

\* C23: every register, unregister and broadcast-all request handed to the
\* hub is eventually taken by the coordinator, and every goroutine of
\* BroadcastAll gets past its send, whatever the direct fan-out operations do.
C23_RequestsEventuallyTaken ==
    /\ \A c \in Conns : InQueue(registerQ, c) ~> ~InQueue(registerQ, c)
    /\ \A c \in Conns : InQueue(unregisterQ, c) ~> ~InQueue(unregisterQ, c)
    /\ (broadcastQ # <<>>) ~> (broadcastQ = <<>>)
    /\ (pendingBA # {}) ~> (pendingBA = {})

\* the same as long as the process lives: a request stays in its queue for
\* ever only when a send on a closed queue or a detected map race killed the
\* process
TakenUnlessCrashed ==
    /\ \A c \in Conns : InQueue(registerQ, c) ~> (~InQueue(registerQ, c) \/ crashed)
    /\ \A c \in Conns : InQueue(unregisterQ, c) ~> (~InQueue(unregisterQ, c) \/ crashed)
    /\ (broadcastQ # <<>>) ~> (broadcastQ = <<>> \/ crashed)
    /\ (pendingBA # {}) ~> (pendingBA = {} \/ crashed)

\* the process died while requests were waiting in the queues of the hub
C23_CrashedWithRequestsWaiting ==
    /\ crashed
    /\ registerQ # <<>> \/ unregisterQ # <<>> \/ broadcastQ # <<>>

\* a step puts a frame of an app event on the queue of connection c
GetsAppFrame(c) ==
    /\ Len(pushed'[c]) = Len(pushed[c]) + 1
    /\ pushed'[c][Len(pushed'[c])].type = "app_code_updated"

\* C24: BroadcastToApp enqueues a frame only on connections whose
\* app-subscription set holds the app when the loop reaches them, and that
\* set is changed by nothing but the subscribe_app and unsubscribe_app frames
\* the connection's read loop takes.
C24_AppFramesOnlyToSubscribers ==
    /\ [][pushed' # pushed => \A c \in Conns : GetsAppFrame(c) => appSub[c]]_vars
    /\ [][appSub' # appSub =>
            /\ \A c \in Conns : appSub'[c] # appSub[c] => rp[c] = "run"
            /\ UNCHANGED <<queueVars, coordVars, loopVars, taskVars, clients>>]_vars

\* BroadcastToApp has gone through the registry: a subscribed connection has
\* the frame, a registered connection that is not subscribed has none
C24_SubscriberServedOtherSkipped ==
    \E t \in Tasks :
        /\ PassDone(t)
        /\ tkind[t] = "app"
        /\ \E c, d \in tsnap[t] \cap clients :
              /\ appSub[c] /\ FramesOf(tmsg[t].payload.id, pushed[c]) = 1
              /\ ~appSub[d] /\ FramesOf(tmsg[t].payload.id, pushed[d]) = 0

(***************************************************************************)
(* Properties of the app-builder chat.                                     *)
(***************************************************************************)
\* the event a step hands to BroadcastToApp
SentEvent == chatEvents'[Len(chatEvents')]

\* the callback goes through its statements in order: the UPDATE, the
\* read-back of broadcastCodeUpdate, the broadcast
ChatInOrder ==
    /\ (cpc' = "read" /\ cpc # "read") => cpc = "write"
    /\ (cpc' = "send" /\ cpc # "send") => cpc = "read"
    /\ chatEvents' # chatEvents => cpc = "send"

IdsOf(l) == {l[i].ID : i \in DOMAIN l}

\* C26: within a sweep, the turn of one due reminder, whether a call of the
\* store fails in it or not, leaves every other reminder the sweep fetched
\* waiting for its own turn, and a failed turn changes no reminder.
C26_FailedTurnKeepsTheRest ==
    [][due # <<>> =>
          /\ IdsOf(Tail(due)) \subseteq IdsOf(due')
          /\ (swept' # swept /\ due' # due
              /\ \E id \in RemIds : swept'[id] \in {"dm fails", "smackbot fails", "create fails"}
                                    /\ id = Head(due).ID)
                => reminders' = reminders]_vars

\* the first sweep found two reminders due: the turn of the earlier one
\* failed at the direct channel, the later one was delivered all the same
C26_LaterDeliveredAfterEarlierFailed ==
    \E id, other \in RemIds :
        /\ now = TickPeriod
        /\ due = <<>>
        /\ reminders[id].state = "live"
        /\ reminders[other].state = "live"
        /\ reminders[id].RemindAt < reminders[other].RemindAt
        /\ swept[id] = "dm fails"
        /\ ~reminders[id].Completed
        /\ swept[other] = "ok"
        /\ Delivered(other)

(***************************************************************************)
(* Properties of the text of a run of the AI mediator.                     *)
(***************************************************************************)
RECURSIVE Concat(_)
Concat(texts) == IF texts = <<>> THEN <<>> ELSE Head(texts) \o Concat(Tail(texts))

\* StreamResponseWithContext has returned to the run that created a placeholder
RunReturned == aiPc \in {"finalize", "passend", "end", "notify", "done"} /\ aiLog # <<>>

\* C27 as stated: the concatenation of the deltas a run broadcast equals its
\* final text, or is a prefix of it.
C27_DeltasMakeFinalText ==
    RunReturned =>
        \/ Concat(DeltaTexts(aiLog)) = aiFinal
        \/ IsPrefix(Concat(DeltaTexts(aiLog)), aiFinal)

\* C27: the final text of a run whose upstream call returned without error
\* is the concatenation of the deltas it broadcast when no done event
\* arrived, and otherwise the text of the last done event followed by the
\* deltas broadcast after it, whatever the earlier deltas were; the final
\* text of a run whose upstream call failed is the apology.
C27_FinalIsDoneTextThenLaterDeltas ==
    RunReturned =>
        LET ds == DeltaTexts(aiLog)
        IN IF aiErr
             THEN aiFinal = Apology
             ELSE \/ aiFinal = Concat(ds)
                  \/ \E text \in DoneTexts, j \in 0..Len(ds) :
                        aiFinal = text \o Concat(SubSeq(ds, j + 1, Len(ds)))

\* a run broadcast a delta, a done event replaced the accumulated text by a
\* text the delta is no prefix of, and a later delta was appended to it
C27_DoneTextReplacedDeltas ==
    /\ aiPc = "done"
    /\ ~aiErr
    /\ DeltaTexts(aiLog) = << <<"P", "a">>, <<" ">> >>
    /\ aiFinal = <<"h", "i", " ">>

(***************************************************************************)
(* Properties of the locking of the registry.                              *)
(***************************************************************************)
\* C28: no task closes an outbound queue that is already closed or enqueues
\* onto a closed queue (either would end the process with a panic), and a
\* task inside the range loop of a fan-out operation, which holds only the
\* read lock, changes neither the registry nor the state of a queue's close.
C28_RegistryWrittenUnderWriteLockOnly ==
    /\ [][\A t \in Tasks :
            (tpc[t] = "fan" /\ StepOf(t)) => (clients' = clients /\ closed' = closed)]_vars
    /\ [][hubpc = "bfan" => (clients' = clients /\ closed' = closed)]_vars
    /\ [](~crashed)

\* C29: when the eviction of a slow consumer removes a user's last
\* registered connection, the user's status is set to offline and one
\* user_offline event is emitted, as when the last connection unregisters; a
\* user without a registered connection is never recorded as online.
C29_EvictionMarksOffline ==
    /\ [][\A u \in Users :
            (ConnCount(clients, u) > 0 /\ Cardinality({c \in clients' : owner'[c] = u}) = 0) =>
                /\ status'[u] = "offline"
                /\ Emitted("user_offline", u) = 1]_vars
    /\ [](\A u \in Users : ConnCount(clients, u) = 0 => status[u] = "offline")

\* C30: every connection whose read loop has ended is eventually out of the
\* registry for good, also when the coordinator takes its unregister request
\* before its register request.  (A process that died of a panic is left
\* aside: the property is about the registry of a living hub.)
C30_EndedConnectionLeavesRegistry ==
    \A c \in Conns : (rp[c] = "done") ~> [](c \notin clients \/ crashed)

(***************************************************************************)
(* Properties of a push that fails.                                        *)
(***************************************************************************)
\* C31: a receive-pack request answered with an "unpack <msg>" failure
\* leaves every reference of the repository and the app-code row of the
\* store as they were before the request.
C31_UnpackFailureChangesNothing ==
    [][(gitPushes' # gitPushes /\ gitReply'.status = "unpack error") =>
          (gitRefs' = gitRefs /\ appCode' = appCode)]_vars

(***************************************************************************)
(* Properties of the two copies of an app's code.                          *)
(***************************************************************************)
\* no code update, detached sync or push is in progress
Quiescent == \A w \in Writers : sypc[w] = "idle"

\* C32: whenever no code update, detached sync or push is in progress, the
\* index.html, styles.css and script.js blobs at HEAD equal the html, css
\* and js of the app-code row of the store.
C32_HeadEqualsStoreWhenQuiescent == Quiescent => syHead = syStore

(***************************************************************************)
(* Properties of the reference updates of a push.                          *)
(***************************************************************************)
\* C33: a command of a push replaces a reference only if the reference's
\* value is the old hash the command sent: every command here names the
\* seed commit as its old hash, so a push that started from the seed cannot
\* replace the branch after another push has moved it off the seed.
C33_RefMovesOnlyFromOldHash ==
    [][\A r \in RefNames :
          gitRefs'[r] # gitRefs[r] =>
              \E cmds \in OneCommand :
                  /\ cmds[1].ref = r
                  /\ cmds[1].old = gitRefs[r]
                  /\ cmds[1].new = gitRefs'[r]]_vars

(***************************************************************************)
(* Properties of repeated sweeps of the reminder scheduler.                *)
(***************************************************************************)
RECURSIVE PostedIn(_)
\* the number of messages of smackbot in the direct channels of the users
PostedIn(us) ==
    IF us = {} THEN 0
    ELSE LET u == CHOOSE x \in us : TRUE
         IN Len(dmMsgs[u]) + PostedIn(us \ {u})

\* the messages of smackbot the sweeps have created
ReminderMessages == PostedIn(Users) + Len(strayMsgs)

\* C34: over any number of sweeps each reminder causes at most one message
\* of smackbot, also when a step of a sweep fails: the sweeps have created
\* no more messages than reminders were ever created.
C34_AtMostOneMessagePerReminder == ReminderMessages <= created

(***************************************************************************)
(* Properties of the owner of an app.                                      *)
(***************************************************************************)
\* C35: after any sequence of add-member and remove-member requests the app
\* has exactly one member with role owner, the user who created the app.
C35_CreatorIsTheOnlyOwner == {u \in Users : appMembers[u] = "owner"} = {Owner}

(***************************************************************************)
(* Properties of the order of the presence events.                         *)
(***************************************************************************)
\* the positions of the presence events about user u among the frames
\* enqueued for connection c
PresenceAt(c, u) ==
    {i \in DOMAIN pushed[c] :
        /\ pushed[c][i].type \in {"user_online", "user_offline"}
        /\ pushed[c][i].payload.user_id = u}

\* the type of the last presence event about user u enqueued for connection c
LastPresence(c, u) ==
    LET last == CHOOSE i \in PresenceAt(c, u) : \A j \in PresenceAt(c, u) : j <= i
    IN pushed[c][last].type

\* no presence event is on its way, and no queue was ever found full
PresenceSettled ==
    /\ ~crashed
    /\ hubpc = "select"
    /\ registerQ = <<>>
    /\ unregisterQ = <<>>
    /\ pendingBA = {}
    /\ broadcastQ = <<>>
    /\ fullSeen = {}

\* C36: the presence events about a user reach the queue of every
\* connection in the order in which the coordinator decided them: once no
\* presence event is on its way, the last one a registered connection got
\* about a user says online exactly if the user has a registered connection.
C36_LastPresenceAgreesWithRegistry ==
    PresenceSettled =>
        \A c \in clients, u \in Users :
            PresenceAt(c, u) # {} =>
                (LastPresence(c, u) = "user_online" <=> ConnCount(clients, u) > 0)

(***************************************************************************)
(* Properties of the per-app stores.                                       *)
(***************************************************************************)
\* the calls of getAppDB that returned a handle of the app's current entry
Holders(app) ==
    {k \in Callers : /\ dbCalls[k].pc = "done"
                     /\ dbCalls[k].app = app
                     /\ dbCalls[k].got # NoHandle
                     /\ dbCalls[k].era = dbCloses[app]}

\* C37: for each app, concurrent first-time requests open at most one
\* handle, and every caller receives the same cached handle until the app's
\* entry is closed.
C37_OneHandlePerEntry ==
    \A app \in AppIds :
        /\ \A e \in 0..MaxCloses :
              Cardinality({o \in dbOpened : o.app = app /\ o.era = e}) <= 1
        /\ \A k \in Holders(app) : dbCalls[k].got = appDBs[app]

\* two callers missed the entry of the same app at the same time: one opened
\* the handle, the other found it under the write lock, and a later caller
\* got it from the map
C37_RacingCallersShareHandle ==
    \E k1, k2, k3 \in Callers :
        /\ {k1, k2, k3} \subseteq Holders("a1")
        /\ dbCalls[k1].how = "opened"
        /\ dbCalls[k2].how = "rechecked"
        /\ dbCalls[k3].how = "cached"
        /\ dbCalls[k1].got = dbCalls[k2].got
        /\ dbCalls[k2].got = dbCalls[k3].got

(***************************************************************************)
(* Properties of the pack of an upload-pack request.                       *)
(***************************************************************************)
RECURSIVE ReachableFrom(_)
\* the hashes reachable from the hashes hs: a commit names its tree and its
\* parents, a tree its entries, a tag its target
ReachableFrom(hs) ==
    LET more == hs \cup UNION {ObjectStore[h].names : h \in hs \cap DOMAIN ObjectStore}
    IN IF more = hs THEN hs ELSE ReachableFrom(more)

\* C38: the pack generated for a set of wanted hashes contains every commit,
\* tree and blob reachable from those hashes exactly once, and the object
\* count of its header is the number of objects written.
C38_PackHoldsReachableOnce ==
    (packOut # NoPack /\ ~packOut.err) =>
        /\ \A h \in ReachableFrom(packWants) :
              ObjectStore[h].type \in {"commit", "tree", "blob"} =>
                  (h \in DOMAIN packOut.written /\ packOut.written[h] = 1)
        /\ \A h \in DOMAIN packOut.written : packOut.written[h] = 1
        /\ packOut.count = Cardinality(DOMAIN packOut.written)

(***************************************************************************)
(* Properties of the parsing of the receive-pack commands.                 *)
(***************************************************************************)
\* the packets that hold a command line
IsCommandPkt(pkt) == \E ref \in {"r", "s"} : pkt \in {CmdPkt(ref), CapsPkt(ref)}

\* the positions of the flush packets of the body
FlushAt == {i \in DOMAIN parseBody : parseBody[i] = FlushPkt}

\* the position of the first flush packet
FirstFlush == CHOOSE i \in FlushAt : \A j \in FlushAt : i <= j

\* the body is command lines, a flush packet and whatever follows it
CommandsThenFlush ==
    /\ FlushAt # {}
    /\ \A i \in 1..(FirstFlush - 1) : IsCommandPkt(parseBody[i])

\* the command of a command line: old hash, new hash and reference name
CommandOf(pkt) == [Old |-> <<pkt[5]>>, New |-> <<pkt[7]>>, RefName |-> <<pkt[9]>>]

\* C39: for every request body, malformed length prefixes included, the
\* parsing of the commands ends without a crash and returns a pack offset
\* that is not beyond the end of the body; for a body of command lines and
\* a flush packet it returns the commands that precede the first flush, in
\* order, and the position just after that flush.
C39_ParsesEveryBody ==
    parseOut # NoParse =>
        /\ ~parseOut.panic
        /\ parseOut.pos <= Len(Bytes(parseBody))
        /\ CommandsThenFlush =>
              /\ parseOut.commands = [i \in 1..(FirstFlush - 1) |-> CommandOf(parseBody[i])]
              /\ parseOut.pos = Len(Bytes(SubSeq(parseBody, 1, FirstFlush)))

====
